---- MODULE Spec2Model ----
(***************************************************************************)
(* Event-dispatch and command-registration core of the client              *)
(* (naff/client/client.py): listener registry, waiter registry, dispatch,  *)
(* the isolated execution unit of a listener, and the registration tables  *)
(* of structured commands, prefixed commands and component/modal callbacks,*)
(* and the interaction router (_dispatch_interaction).                      *)
(***************************************************************************)
EXTENDS Integers, Sequences, FiniteSets, TLC

VARIABLES
    listeners,      \* Client.listeners: event name -> list of Listener
    nextListener,   \* number of add_listener calls so far (registration number)
    waits,          \* Client.waits: event name -> list of Wait
    futures,        \* the asyncio.Future of every wait_for call, by waiter id, with
                    \* the arguments of the call and the number of events
                    \* dispatched before it
    tasks,          \* the asyncio tasks created by _queue_task, in creation order
    dispatched,     \* every event handed to dispatch, in call order
    ready,          \* Client._ready (asyncio.Event)
    logged,         \* calls of default_error_handler made by _async_wrap
    enforce_interaction_perms,  \* Client.enforce_interaction_perms
    debug_scope,    \* Client.debug_scope ("none" when unset)
    commands,       \* the command objects handed to the registration calls
    cmdChecks,      \* per command: permission enforcers appended to command.checks
    interactions,   \* Client.interactions: scope -> resolved name -> command
    interaction_tree,   \* Client.interaction_tree: scope -> base -> ...
    prefixed_commands,  \* Client.prefixed_commands: name or alias -> command
    component_callbacks,    \* Client._component_callbacks: custom id -> command
    modal_callbacks,    \* Client._modal_callbacks: custom id -> command
    lastCall,       \* the last registration call and how it ended
    interaction_scopes, \* Client._interaction_scopes: command id -> scope
    pre_run_callback,   \* Client.pre_run_callback is set
    post_run_callback,  \* Client.post_run_callback is set
    routed,         \* the envelopes handed to _dispatch_interaction, with what
                    \* the router did for each, in order
    prefixed_objects,   \* the PrefixedCommand objects by path of names: enabled,
                        \* hierarchical_checking, and which error handlers exist
    resolved,       \* the messages handed to _dispatch_prefixed_commands, with
                    \* what the resolver did for each, in order
    remote_commands,    \* the application commands the service holds, by scope
    cmd_id,         \* command.cmd_id of the local commands: scope and resolved
                    \* name -> id
    del_unused_app_cmd, \* Client.del_unused_app_cmd
    synced,         \* the last synchronise_interactions call, with the requests
                    \* it made and how it ended (empty before the first call)
    contexts,       \* the get_context and fetch_* calls, with how each ended
    auto_defer,     \* the auto-defer settings: Client.auto_defer, and the
                    \* command's own and its extension's ("none": no extension)
    wraps,          \* the wrap calls that _cache_interactions gathers: scope ->
                    \* where the call is (empty when no refresh is running)
    event_names,    \* the last call of Listener.create or add_event_processor:
                    \* the names it was given and the routing key it stored
                    \* (empty before the first call)
    startup,        \* Client._startup
    guild_event,    \* Client._guild_event (asyncio.Event) is set
    guild_cache,    \* the guilds of self.cache.guild_cache
    handlers,       \* the executions of _on_websocket_ready: branch, position,
                    \* expected_guilds, ready_guilds, the temporary listener,
                    \* and whether the execution ran _init_interactions
    req_lock        \* req_lock of _cache_interactions (asyncio.Lock): whether it
                    \* is held, and the scopes whose wrap waits for it, in order

dispVars == <<listeners, nextListener, waits, futures, tasks, dispatched, ready, logged>>

configVars == <<enforce_interaction_perms, debug_scope>>

interactionVars == <<cmdChecks, interactions, interaction_tree>>

prefixedVars == <<prefixed_commands, component_callbacks, modal_callbacks>>

regVars == <<configVars, commands, interactionVars, prefixedVars, lastCall>>

routerVars == <<interaction_scopes, pre_run_callback, post_run_callback, routed>>

resolverVars == <<prefixed_objects, resolved>>

syncVars == <<remote_commands, cmd_id, del_unused_app_cmd, synced>>

refreshVars == <<wraps, req_lock>>

readyVars == <<startup, guild_event, guild_cache, handlers>>

lateVars == <<auto_defer, refreshVars, event_names, readyVars>>

extVars == <<resolverVars, syncVars, contexts, lateVars>>

vars == <<dispVars, regVars, routerVars, extVars>>

---------------------------------------------------------------------------
(* Bounds *)

MaxListeners == 2      \* add_listener calls
MaxDispatch == 2       \* dispatch calls made from outside the client
MaxTasks == 4          \* tasks created by _queue_task
MaxWaits == 2          \* wait_for calls

---------------------------------------------------------------------------
(* Events *)

EventNames == {"error", "raw_gateway_event", "message_create"}

\* What a predicate of wait_for can tell apart in an event
Payloads == {"p", "q"}

\* The predicates handed to wait_for: true of "p" events only, true of every event
Checks == {{"p"}, Payloads}

\* The event names listeners are registered under
ListenNames == {"error", "message_create"}

\* The events dispatched by _dispatch_interaction
RouterEvents ==
    {"command_error", "command_completion", "autocomplete_error",
     "autocomplete_completion", "component", "component_error",
     "component_completion", "button_pressed", "select", "modal_completion",
     "modal_error"}

\* isinstance(event, events.Error)
IsError(e) == e.name = "error"

\* isinstance(_event, (events.Error, events.RawGatewayEvent))
IsErrorOrRaw(e) == e.name \in {"error", "raw_gateway_event"}

\* An event object; source/error are the fields of events.Error (0 otherwise),
\* regs is the listener list dispatch found for it.
Event(name, payload, source, error) ==
    [name |-> name, payload |-> payload, source |-> source, error |-> error,
     regs |-> [i \in 1..Len(listeners[name]) |-> listeners[name][i].id]]

---------------------------------------------------------------------------
(* Sequence helpers *)

Pop(s, i) == SubSeq(s, 1, i - 1) \o SubSeq(s, i + 1, Len(s))

Reverse(s) == [i \in 1..Len(s) |-> s[Len(s) + 1 - i]]

Ids(s) == [i \in 1..Len(s) |-> s[i].id]

---------------------------------------------------------------------------
(* Listener registry *)

Listener(id, event, isDefault, disablesDefaults, delay) ==
    [id |-> id, event |-> event, is_default_listener |-> isDefault,
     disable_default_listeners |-> disablesDefaults, delay_until_ready |-> delay]

IsNotDefault(l) == ~l.is_default_listener

\* add_listener without the filtering of the default listeners
ListenersAfterAddUnfiltered(lst, listener) == Append(lst, listener)

\* The list of listener.event after add_listener(listener): append, then drop
\* every default listener when the list holds a default listener and a
\* listener that disables the defaults.
ListenersAfterAdd(lst, listener) ==
    LET appended == Append(lst, listener)
        default_listeners == {i \in 1..Len(appended) : appended[i].is_default_listener}
        removes_defaults == {i \in 1..Len(appended) : appended[i].disable_default_listeners}
    IN IF default_listeners # {} /\ removes_defaults # {}
       THEN SelectSeq(appended, IsNotDefault)
       ELSE appended

\* Client.add_listener (the intent check only logs a warning)
AddListener(event, isDefault, disablesDefaults, delay) ==
    /\ nextListener < MaxListeners
    /\ LET listener == Listener(nextListener + 1, event, isDefault, disablesDefaults, delay)
       IN listeners' = [listeners EXCEPT ![event] = ListenersAfterAdd(@, listener)]
    /\ nextListener' = nextListener + 1
    /\ UNCHANGED <<extVars, routerVars, waits, futures, tasks, dispatched, ready, logged, regVars>>

\* self.listeners["raw_guild_create"].remove(listener): removal by identity
RemoveListener(event, i) ==
    /\ i \in 1..Len(listeners[event])
    /\ listeners' = [listeners EXCEPT ![event] = Pop(@, i)]
    /\ UNCHANGED <<extVars, routerVars, nextListener, waits, futures, tasks, dispatched, ready, logged, regVars>>

---------------------------------------------------------------------------
(* Waiter registry *)

\* The predicate that raises on every event, written as the set of what it
\* accepts
Raising == {"raise"}

\* Wait.__call__(event): a waiter whose future was cancelled (timed out) is
\* reported as finished without touching the future; otherwise the checks are
\* evaluated and, when they pass, the future is resolved with the event. The
\* call raises when the predicate does, and when the future it is to resolve
\* holds a result already (asyncio's InvalidStateError).
WaitCall(w, e, idx, futs) ==
    IF futs[w.id].state = "cancelled"
    THEN [result |-> TRUE, raised |-> FALSE, futs |-> futs]
    ELSE IF w.checks = Raising
         THEN [result |-> FALSE, raised |-> TRUE, futs |-> futs]
    ELSE IF e.payload \in w.checks
         THEN IF futs[w.id].state = "result"
              THEN [result |-> FALSE, raised |-> TRUE, futs |-> futs]
              ELSE [result |-> TRUE, raised |-> FALSE,
                    futs |-> [futs EXCEPT ![w.id].state = "result", ![w.id].event = idx]]
         ELSE [result |-> FALSE, raised |-> FALSE, futs |-> futs]

\* for i, _wait in enumerate(_waits): result = _wait(event); collect i if result
RECURSIVE EvalWaits(_, _, _, _, _)
EvalWaits(ws, e, idx, i, acc) ==
    IF i > Len(ws) \/ acc.raised THEN acc
    ELSE LET r == WaitCall(ws[i], e, idx, acc.futs)
         IN EvalWaits(ws, e, idx, i + 1,
                      [index_to_remove |-> IF r.result THEN Append(acc.index_to_remove, i)
                                           ELSE acc.index_to_remove,
                       raised |-> r.raised,
                       futs |-> r.futs])

\* dispatch popping nothing from the waiter list
PopNone(ws, idxs) == ws

\* for idx in sorted(index_to_remove, reverse=True): _waits.pop(idx)
RECURSIVE PopAll(_, _)
PopAll(ws, idxs) ==
    IF idxs = <<>> THEN ws ELSE PopAll(Pop(ws, Head(idxs)), Tail(idxs))

\* the indices popped in ascending order
RemoveOrderAscending(index_to_remove) == index_to_remove

RemoveOrder(index_to_remove) == Reverse(index_to_remove)

\* The waiter half of dispatch: [waits, futs] after the event was shown to the
\* waiters of its name.
DispatchWaits(ws, futs, e, idx) ==
    LET _waits == ws[e.name]
        r == EvalWaits(_waits, e, idx, 1,
                       [index_to_remove |-> <<>>, raised |-> FALSE, futs |-> futs])
    IN [waits |-> IF r.raised THEN ws
                  ELSE [ws EXCEPT ![e.name] = PopAll(_waits, RemoveOrder(r.index_to_remove))],
        raised |-> r.raised,
        futs |-> r.futs]

\* Client.wait_for: a new Wait with a new future at the end of the event's list
WaitFor(event, checks) ==
    /\ Len(futures) < MaxWaits
    /\ LET id == Len(futures) + 1
       IN /\ futures' = Append(futures, [state |-> "pending", event |-> 0, name |-> event,
                                          checks |-> checks, created |-> Len(dispatched)])
          /\ waits' = [waits EXCEPT ![event] = Append(@, [id |-> id, event |-> event,
                                                           checks |-> checks])]
    /\ UNCHANGED <<extVars, routerVars, listeners, nextListener, tasks, dispatched, ready, logged, regVars>>

\* asyncio.wait_for(future, timeout) running out: the future is cancelled and
\* the caller gets TimeoutError; wait_for leaves self.waits alone.
Timeout(id) ==
    /\ id \in 1..Len(futures)
    /\ futures[id].state = "pending"
    /\ futures' = [futures EXCEPT ![id].state = "cancelled"]
    /\ UNCHANGED <<extVars, routerVars, listeners, nextListener, waits, tasks, dispatched, ready, logged, regVars>>

---------------------------------------------------------------------------
(* dispatch and the execution unit of a listener *)

\* the callback entered inside _queue_task, before dispatch returns
QueueTaskRunning(listener, idx) ==
    [listener |-> listener.id, delay |-> listener.delay_until_ready,
     event |-> idx, pc |-> "callback"]

\* _queue_task: asyncio.create_task(_async_wrap(coro, event))
QueueTask(listener, idx) ==
    [listener |-> listener.id, delay |-> listener.delay_until_ready,
     event |-> idx, pc |-> "created"]

\* the listeners queued last to first
QueueAllReversed(lst, idx) == [i \in 1..Len(lst) |-> QueueTask(lst[Len(lst) + 1 - i], idx)]

\* for _listen in listeners: self._queue_task(_listen, event)
QueueAll(lst, idx) == [i \in 1..Len(lst) |-> QueueTask(lst[i], idx)]

\* Client.dispatch(event) applied to (tasks, waits, futures, dispatched)
DispatchOn(ts, ws, futs, log, e) ==
    LET idx == Len(log) + 1
        w == DispatchWaits(ws, futs, e, idx)
    IN [tasks |-> ts \o QueueAll(listeners[e.name], idx),
        waits |-> w.waits,
        futs |-> w.futs,
        log |-> Append(log, e)]

External(log) == {i \in 1..Len(log) : log[i].source = 0}

\* dispatch called by a processor or by user code
Dispatch(name, payload) ==
    /\ Cardinality(External(dispatched)) < MaxDispatch
    /\ Len(tasks) + Len(listeners[name]) <= MaxTasks
    /\ LET d == DispatchOn(tasks, waits, futures, dispatched, Event(name, payload, 0, 0))
       IN /\ tasks' = d.tasks
          /\ waits' = d.waits
          /\ futures' = d.futs
          /\ dispatched' = d.log
    /\ UNCHANGED <<extVars, routerVars, listeners, nextListener, ready, logged, regVars>>

Live == {"created", "wait_ready", "woken", "callback"}

\* _async_wrap up to its first suspension: wait for readiness unless the event
\* is an Error or a raw gateway event, else enter the callback
TaskStart(t) ==
    /\ t \in 1..Len(tasks)
    /\ tasks[t].pc = "created"
    /\ LET e == dispatched[tasks[t].event]
       IN tasks' = [tasks EXCEPT ![t].pc =
                       IF ~IsErrorOrRaw(e) /\ tasks[t].delay /\ ~ready
                       THEN "wait_ready" ELSE "callback"]
    /\ UNCHANGED <<extVars, routerVars, listeners, nextListener, waits, futures, dispatched, ready, logged, regVars>>

\* the task resumes from wait_until_ready after _ready.set() woke it
TaskResume(t) ==
    /\ t \in 1..Len(tasks)
    /\ tasks[t].pc = "woken"
    /\ tasks' = [tasks EXCEPT ![t].pc = "callback"]
    /\ UNCHANGED <<extVars, routerVars, listeners, nextListener, waits, futures, dispatched, ready, logged, regVars>>

\* the callback returns
TaskFinish(t) ==
    /\ t \in 1..Len(tasks)
    /\ tasks[t].pc = "callback"
    /\ tasks' = [tasks EXCEPT ![t].pc = "done"]
    /\ UNCHANGED <<extVars, routerVars, listeners, nextListener, waits, futures, dispatched, ready, logged, regVars>>

\* a new Error event also for the failure of a listener of an Error event
OnExceptionAlwaysDispatch(t) ==
    LET e == dispatched[tasks[t].event]
        raised == [tasks EXCEPT ![t].pc = "raised"]
    IN DispatchOn(raised, waits, futures, dispatched,
                  Event("error", e.payload, tasks[t].event, t))
       @@ [logged |-> logged]

\* an Error event only for the first failing listener of a dispatch
OnExceptionOncePerDispatch(t) ==
    LET e == dispatched[tasks[t].event]
        raised == [tasks EXCEPT ![t].pc = "raised"]
        silent == [tasks |-> raised, waits |-> waits, futs |-> futures, log |-> dispatched]
        seen == \E i \in 1..Len(dispatched) :
                    IsError(dispatched[i]) /\ dispatched[i].source = tasks[t].event
    IN IF IsError(e)
       THEN silent @@ [logged |-> Append(logged, tasks[t].event)]
       ELSE IF seen THEN silent @@ [logged |-> logged]
       ELSE DispatchOn(raised, waits, futures, dispatched,
                       Event("error", e.payload, tasks[t].event, t))
            @@ [logged |-> logged]

\* What `except Exception` of _async_wrap does for task t: the fallback logger
\* for an Error event, a dispatch of a new Error event otherwise.
OnException(t) ==
    LET e == dispatched[tasks[t].event]
        raised == [tasks EXCEPT ![t].pc = "raised"]
    IN IF IsError(e)
       THEN [tasks |-> raised, waits |-> waits, futs |-> futures, log |-> dispatched,
             logged |-> Append(logged, tasks[t].event)]
       ELSE DispatchOn(raised, waits, futures, dispatched,
                       Event("error", e.payload, tasks[t].event, t))
            @@ [logged |-> logged]

\* the callback raises an Exception
TaskRaise(t) ==
    /\ t \in 1..Len(tasks)
    /\ tasks[t].pc = "callback"
    /\ Len(tasks) + Len(listeners["error"]) <= MaxTasks
    /\ LET d == OnException(t)
       IN /\ tasks' = d.tasks
          /\ waits' = d.waits
          /\ futures' = d.futs
          /\ dispatched' = d.log
          /\ logged' = d.logged
    /\ UNCHANGED <<extVars, routerVars, listeners, nextListener, ready, regVars>>

\* the cancellation handled by `except Exception` like a failure of the callback
TaskCancelReported(t) ==
    /\ t \in 1..Len(tasks)
    /\ tasks[t].pc \in Live
    /\ Len(tasks) + Len(listeners["error"]) <= MaxTasks
    /\ LET d == OnException(t)
       IN /\ tasks' = [d.tasks EXCEPT ![t].pc = "cancelled"]
          /\ waits' = d.waits
          /\ futures' = d.futs
          /\ dispatched' = d.log
          /\ logged' = d.logged
    /\ UNCHANGED <<extVars, routerVars, listeners, nextListener, ready, regVars>>

\* the task is cancelled: `except asyncio.CancelledError: pass`
TaskCancel(t) ==
    /\ t \in 1..Len(tasks)
    /\ tasks[t].pc \in Live
    /\ tasks' = [tasks EXCEPT ![t].pc = "cancelled"]
    /\ UNCHANGED <<extVars, routerVars, listeners, nextListener, waits, futures, dispatched, ready, logged, regVars>>

\* self._ready.set(): every task suspended in wait_until_ready is woken
SetReady ==
    /\ ~ready
    /\ ready' = TRUE
    /\ tasks' = [i \in 1..Len(tasks) |->
                    IF tasks[i].pc = "wait_ready" THEN [tasks[i] EXCEPT !.pc = "woken"]
                    ELSE tasks[i]]
    /\ UNCHANGED <<extVars, routerVars, listeners, nextListener, waits, futures, dispatched, logged, regVars>>

\* self._ready.clear() (stop, disconnect)
ClearReady ==
    /\ ready
    /\ ready' = FALSE
    /\ UNCHANGED <<extVars, routerVars, listeners, nextListener, waits, futures, tasks, dispatched, logged, regVars>>

---------------------------------------------------------------------------
(* Structured commands: add_interaction *)

MaxCommands == 3       \* add_interaction calls

MaxRegistrations == 2  \* calls registering prefixed commands and callbacks

Scopes == {"global", "guild"}

\* command.scopes: the scopes of a command, in list order
ScopeLists == {<<"global">>, <<"guild">>, <<"global", "guild">>, <<"guild", "global">>}

\* command.resolved_name as its list of words: base, group, sub
ResolvedNames == {<<"a">>, <<"a", "b">>, <<"a", "b", "c">>}

CommandTypes == {"slash", "context_menu"}

\* dict helpers: k in d, and d[k] = v
Has(d, k) == k \in DOMAIN d

Put(d, k, v) == [x \in DOMAIN d \cup {k} |-> IF x = k THEN v ELSE d[x]]

\* A value of the command tree: a command (SlashCommand or ContextMenu) or a dict
CommandNode(c, type) == [kind |-> type, id |-> c, items |-> <<>>]

DictNode(items) == [kind |-> "dict", id |-> 0, items |-> items]

\* every node taken for one to replace
NotGroupAlways(d, key) == TRUE

\* not (current := d.get(key)) or isinstance(current, SlashCommand)
NotGroup(d, key) ==
    \/ ~Has(d, key)
    \/ d[key].kind = "dict" /\ DOMAIN d[key].items = {}
    \/ d[key].kind = "slash"

\* The tree insertion of add_interaction into interaction_tree[scope]; ok is
\* FALSE when the item assignment hits a value that is no dict (TypeError).
TreeInsert(t, c, cmd) ==
    LET name == cmd.resolved_name
        base == <<name[1]>>
        node == CommandNode(c, cmd.type)
    IN IF Len(name) = 1 \/ cmd.type = "context_menu"
       THEN [ok |-> TRUE, tree |-> Put(t, name, node)]
       ELSE LET t1 == IF NotGroup(t, base) THEN Put(t, base, DictNode(<<>>)) ELSE t
                items == t1[base].items
                group == <<name[2]>>
            IN IF t1[base].kind # "dict"
               THEN [ok |-> FALSE, tree |-> t1]
               ELSE IF Len(name) = 2
               THEN [ok |-> TRUE, tree |-> Put(t1, base, DictNode(Put(items, group, node)))]
               ELSE LET items1 == IF NotGroup(items, group)
                                  THEN Put(items, group, DictNode(<<>>)) ELSE items
                        sub == <<name[3]>>
                    IN IF items1[group].kind # "dict"
                       THEN [ok |-> FALSE, tree |-> Put(t1, base, DictNode(items1))]
                       ELSE [ok |-> TRUE,
                             tree |-> Put(t1, base, DictNode(Put(items1, group,
                                          DictNode(Put(items1[group].items, sub, node)))))]

\* The number of permission enforcers in command.checks after
\* `if self.enforce_interaction_perms: command.checks.append(...)`
ChecksAfterScope(n) == IF enforce_interaction_perms THEN n + 1 ELSE n

\* One iteration of `for scope in command.scopes` on st = the flat map, the
\* tree, the number of enforcers appended to the command and the outcome
RegisterInScope(st, c, cmd, scope) ==
    IF Has(st.interactions, scope) /\ Has(st.interactions[scope], cmd.resolved_name)
    THEN [st EXCEPT !.outcome = "ValueError"]
    ELSE LET flat == IF Has(st.interactions, scope) THEN st.interactions[scope] ELSE <<>>
             ins == TreeInsert(IF Has(st.tree, scope) THEN st.tree[scope] ELSE <<>>, c, cmd)
         IN [interactions |-> Put(st.interactions, scope, Put(flat, cmd.resolved_name, c)),
             checks |-> ChecksAfterScope(st.checks),
             tree |-> Put(st.tree, scope, ins.tree),
             outcome |-> IF ins.ok THEN "running" ELSE "TypeError"]

\* for scope in command.scopes: ...; return True
RECURSIVE RegisterScopes(_, _, _, _)
RegisterScopes(st, c, cmd, scopes) ==
    IF scopes = <<>> THEN [st EXCEPT !.outcome = "True"]
    ELSE LET st1 == RegisterInScope(st, c, cmd, Head(scopes))
         IN IF st1.outcome # "running" THEN st1
            ELSE RegisterScopes(st1, c, cmd, Tail(scopes))

\* Client.add_interaction(command)
AddInteraction(name, scopes, type, callback) ==
    /\ Len(commands) < MaxCommands
    /\ LET c == Len(commands) + 1
           cmd == [resolved_name |-> name, type |-> type, callback |-> callback,
                   scopes |-> IF debug_scope # "none" THEN <<debug_scope>> ELSE scopes]
           st == [interactions |-> interactions, tree |-> interaction_tree,
                  checks |-> 0, outcome |-> "running"]
           r == IF ~callback THEN [st EXCEPT !.outcome = "False"]
                ELSE RegisterScopes(st, c, cmd, cmd.scopes)
       IN /\ commands' = Append(commands, cmd)
          /\ cmdChecks' = Append(cmdChecks, r.checks)
          /\ interactions' = r.interactions
          /\ interaction_tree' = r.tree
          /\ lastCall' = [op |-> "add_interaction", outcome |-> r.outcome]
    /\ UNCHANGED <<extVars, routerVars, dispVars, configVars, prefixedVars>>

---------------------------------------------------------------------------
(* Prefixed commands and component / modal callbacks *)

\* Command names, aliases and custom ids
Keys == {"x", "y", "z"}

\* command.aliases / command.listeners: lists of keys
KeyLists == {<<>>} \cup {<<k>> : k \in Keys} \cup {<<k, l>> : k, l \in Keys}

\* the alias loop binding every alias without looking
RECURSIVE AddAliasesUnchecked(_, _, _)
AddAliasesUnchecked(table, c, aliases) ==
    IF aliases = <<>> THEN [table |-> table, outcome |-> "None"]
    ELSE AddAliasesUnchecked(Put(table, Head(aliases), c), c, Tail(aliases))

\* for alias in command.aliases: raise if the alias is bound, else bind it
RECURSIVE AddAliases(_, _, _)
AddAliases(table, c, aliases) ==
    IF aliases = <<>> THEN [table |-> table, outcome |-> "None"]
    ELSE IF Has(table, Head(aliases))
         THEN [table |-> table, outcome |-> "ValueError"]
         ELSE AddAliases(Put(table, Head(aliases), c), c, Tail(aliases))

\* The name check and the alias loop of add_prefixed_command
PrefixedAfterAdd(table, c, name, aliases) ==
    IF Has(table, name)
    THEN [table |-> table, outcome |-> "ValueError"]
    ELSE AddAliases(Put(table, name, c), c, aliases)

\* Client.add_prefixed_command(command)
AddPrefixedCommand(name, aliases) ==
    /\ Len(commands) < MaxRegistrations
    /\ LET c == Len(commands) + 1
           r == PrefixedAfterAdd(prefixed_commands, c, name, aliases)
       IN /\ commands' = Append(commands, [name |-> name, aliases |-> aliases])
          /\ prefixed_commands' = r.table
          /\ lastCall' = [op |-> "add_prefixed_command", outcome |-> r.outcome]
    /\ UNCHANGED <<extVars, routerVars, dispVars, configVars, interactionVars, component_callbacks, modal_callbacks>>

\* for listener in command.listeners: bind the custom id unless it is bound,
\* raise if it is
RECURSIVE AddCallbacks(_, _, _)
AddCallbacks(table, c, ids) ==
    IF ids = <<>> THEN [table |-> table, outcome |-> "None"]
    ELSE IF ~Has(table, Head(ids))
         THEN AddCallbacks(Put(table, Head(ids), c), c, Tail(ids))
         ELSE [table |-> table, outcome |-> "ValueError"]

\* Client.add_component_callback(command)
AddComponentCallback(ids) ==
    /\ Len(commands) < MaxRegistrations
    /\ LET c == Len(commands) + 1
           r == AddCallbacks(component_callbacks, c, ids)
       IN /\ commands' = Append(commands, [listeners |-> ids])
          /\ component_callbacks' = r.table
          /\ lastCall' = [op |-> "add_component_callback", outcome |-> r.outcome]
    /\ UNCHANGED <<extVars, routerVars, dispVars, configVars, interactionVars, prefixed_commands, modal_callbacks>>

\* Client.add_modal_callback(command)
AddModalCallback(ids) ==
    /\ Len(commands) < MaxRegistrations
    /\ LET c == Len(commands) + 1
           r == AddCallbacks(modal_callbacks, c, ids)
       IN /\ commands' = Append(commands, [listeners |-> ids])
          /\ modal_callbacks' = r.table
          /\ lastCall' = [op |-> "add_modal_callback", outcome |-> r.outcome]
    /\ UNCHANGED <<extVars, routerVars, dispVars, configVars, interactionVars, prefixed_commands, component_callbacks>>

---------------------------------------------------------------------------
(* The interaction router: _dispatch_interaction *)

MaxEnvelopes == 1      \* envelopes handed to _dispatch_interaction

\* interaction_data["type"]; "unknown" stands for every other type tag
InteractionTypes ==
    {"ping", "application_command", "autocomplete", "message_component",
     "modal_response", "unknown"}

\* interaction_data["data"]["component_type"]
ComponentTypes == {"button", "string_select", "user_select"}

\* The commands the remote service can name in an envelope, and the id it
\* gave each of them: one id per scope and command name
RemoteCommands == {<<scope, <<"a">>>> : scope \in Scopes}

\* ctx.custom_id of a component or modal envelope
CustomIds == {"x", "y"}

\* The envelopes: a command envelope carries the command id and the name the
\* context resolves to (ctx.invoke_target), and has a focussed option only in
\* an autocomplete context; a component or modal envelope carries a custom id.
CommandEnvelopes ==
    {[type |-> type, id |-> c, invoke_target |-> c[2], focussed_option |-> f,
      custom_id |-> "none", component_type |-> "none"] :
        type \in {"ping", "application_command", "autocomplete"},
        c \in RemoteCommands, f \in BOOLEAN}

ComponentEnvelopes ==
    {[type |-> "message_component", id |-> <<>>, invoke_target |-> <<>>,
      focussed_option |-> FALSE, custom_id |-> k, component_type |-> ct] :
        k \in CustomIds, ct \in ComponentTypes}

ModalEnvelopes ==
    {[type |-> "modal_response", id |-> <<>>, invoke_target |-> <<>>,
      focussed_option |-> FALSE, custom_id |-> k, component_type |-> "none"] :
        k \in CustomIds}

OtherEnvelopes ==
    {[type |-> "unknown", id |-> <<>>, invoke_target |-> <<>>,
      focussed_option |-> FALSE, custom_id |-> "none", component_type |-> "none"]}

Envelopes ==
    {e \in CommandEnvelopes : e.focussed_option => e.type = "autocomplete"}
        \cup ComponentEnvelopes \cup ModalEnvelopes \cup OtherEnvelopes

\* The awaited calls of the router, each of which may raise
Steps == {"defer", "pre_run", "command", "post_run", "autocomplete", "callback"}

IsRouterEvent(x) == x \in RouterEvents

IsStep(x) == x \in Steps

\* The calls of a try body made when the call named by fails raises: up to and
\* including that call, all of them when it is not among them
Ran(steps, fails) ==
    IF \E i \in 1..Len(steps) : steps[i] = fails
    THEN SubSeq(steps, 1, CHOOSE i \in 1..Len(steps) : steps[i] = fails)
    ELSE steps

Raised(steps, fails) == \E i \in 1..Len(steps) : steps[i] = fails

\* try: steps / except Exception: dispatch(error), with no finally clause
TryExcept(steps, fails, error) ==
    Ran(steps, fails) \o (IF Raised(steps, fails) THEN <<error>> ELSE <<>>)

\* try: steps / except Exception: dispatch(error) / finally: dispatch(completion)
TryFinally(steps, fails, error, completion) ==
    TryExcept(steps, fails, error) \o <<completion>>

\* the hooks awaited before the defer action
CommandStepsHooksFirst ==
    (IF pre_run_callback THEN <<"pre_run">> ELSE <<>>)
        \o <<"defer", "command">>
        \o (IF post_run_callback THEN <<"post_run">> ELSE <<>>)

\* The try body of a command invocation: auto_defer, pre_run_callback when
\* set, _run_slash_command, post_run_callback when set
CommandSteps ==
    <<"defer">>
        \o (IF pre_run_callback THEN <<"pre_run">> ELSE <<>>)
        \o <<"command">>
        \o (IF post_run_callback THEN <<"post_run">> ELSE <<>>)

\* The try body of a component or modal callback
CallbackSteps ==
    (IF pre_run_callback THEN <<"pre_run">> ELSE <<>>)
        \o <<"callback">>
        \o (IF post_run_callback THEN <<"post_run">> ELSE <<>>)

\* an id without an entry resolved to the global scope
ScopeOfOrGlobal(id) ==
    IF Has(interaction_scopes, id) THEN interaction_scopes[id] ELSE "global"

\* self._interaction_scopes.get(str(interaction_id)): "none" is None
ScopeOf(id) ==
    IF Has(interaction_scopes, id) THEN interaction_scopes[id] ELSE "none"

\* the completion event left out when the callback raised
AutocompleteTraceNoFinally(fails) ==
    IF fails = "autocomplete" THEN TryExcept(<<"autocomplete">>, fails, "autocomplete_error")
    ELSE <<"autocomplete", "autocomplete_completion">>

\* The autocomplete branch: the callback of the focussed option
AutocompleteTrace(fails) ==
    TryFinally(<<"autocomplete">>, fails, "autocomplete_error", "autocomplete_completion")

\* The values of an auto_defer attribute: MISSING, or an AutoDefer object
\* with enabled set or not
AutoDeferSettings == {"MISSING", "enabled", "disabled"}

\* if x: for an auto_defer attribute (MISSING is false, an AutoDefer object
\* is true whatever it holds)
Truthy(setting) == setting # "MISSING"

\* the extension's setting asked before the command's own
AutoDeferExtensionFirst ==
    IF auto_defer.extension # "none" /\ Truthy(auto_defer.extension) THEN "extension"
    ELSE IF Truthy(auto_defer.command) THEN "command"
    ELSE "client"

\* The object bound to auto_defer by the router: the command's, else its
\* extension's, else the client's
AutoDefer ==
    IF Truthy(auto_defer.command) THEN "command"
    ELSE IF auto_defer.extension # "none" /\ Truthy(auto_defer.extension) THEN "extension"
    ELSE "client"

\* The command branch of the router: what it does for a ping, command or
\* autocomplete envelope
CommandBranch(env, fails) ==
    LET scope == ScopeOf(env.id)
    IN IF Has(interactions, scope)
       THEN IF ~Has(interactions[scope], env.invoke_target)
            THEN [steps |-> <<>>, trace |-> <<>>, deferred |-> <<>>,
                  outcome |-> "KeyError"]
            ELSE IF env.focussed_option
            THEN [steps |-> <<"autocomplete">>, trace |-> AutocompleteTrace(fails),
                  deferred |-> <<>>, outcome |-> "returned"]
            ELSE [steps |-> CommandSteps,
                  trace |-> TryFinally(CommandSteps, fails, "command_error",
                                       "command_completion"),
                  deferred |-> <<AutoDefer>>, outcome |-> "returned"]
       ELSE [steps |-> <<>>, trace |-> <<"log_error">>, deferred |-> <<>>,
             outcome |-> "returned"]

\* the specialized event dispatched only after a callback
ComponentTraceSpecializedAfterCallback(env, fails) ==
    IF Has(component_callbacks, env.custom_id)
    THEN <<"component">>
             \o TryFinally(CallbackSteps, fails, "component_error", "component_completion")
             \o (IF env.component_type = "button" THEN <<"button_pressed">> ELSE <<>>)
             \o (IF env.component_type = "string_select" THEN <<"select">> ELSE <<>>)
    ELSE <<"component">>

\* The component branch: the Component event, the callback of the custom id
\* when there is one, then the event of the component type
ComponentTrace(env, fails) ==
    <<"component">>
        \o (IF Has(component_callbacks, env.custom_id)
            THEN TryFinally(CallbackSteps, fails, "component_error", "component_completion")
            ELSE <<>>)
        \o (IF env.component_type = "button" THEN <<"button_pressed">> ELSE <<>>)
        \o (IF env.component_type = "string_select" THEN <<"select">> ELSE <<>>)

\* a completion event dispatched again after the callback
ModalTraceCompletionAfter(env, fails) ==
    <<"modal_completion">>
        \o (IF Has(modal_callbacks, env.custom_id)
            THEN TryFinally(CallbackSteps, fails, "modal_error", "modal_completion")
            ELSE <<>>)

\* The modal branch: the ModalCompletion event, then the callback of the
\* custom id when there is one
ModalTrace(env, fails) ==
    <<"modal_completion">>
        \o (IF Has(modal_callbacks, env.custom_id)
            THEN TryExcept(CallbackSteps, fails, "modal_error")
            ELSE <<>>)

\* _dispatch_interaction as a function of the envelope and of the call that
\* raises: the try body it reaches, what it does in order (calls, dispatched
\* events, the log entry) and how it ends
Route(env, fails) ==
    IF env.type \in {"ping", "application_command", "autocomplete"}
    THEN CommandBranch(env, fails)
    ELSE IF env.type = "message_component"
    THEN [steps |-> IF Has(component_callbacks, env.custom_id) THEN CallbackSteps ELSE <<>>,
          trace |-> ComponentTrace(env, fails), deferred |-> <<>>, outcome |-> "returned"]
    ELSE IF env.type = "modal_response"
    THEN [steps |-> IF Has(modal_callbacks, env.custom_id) THEN CallbackSteps ELSE <<>>,
          trace |-> ModalTrace(env, fails), deferred |-> <<>>, outcome |-> "returned"]
    ELSE [steps |-> <<>>, trace |-> <<>>, deferred |-> <<>>,
          outcome |-> "NotImplementedError"]

\* self.dispatch(...) for every event of names, in order
RECURSIVE DispatchEach(_, _)
DispatchEach(st, names) ==
    IF names = <<>> THEN st
    ELSE DispatchEach(DispatchOn(st.tasks, st.waits, st.futs, st.log,
                                 Event(Head(names), "p", 0, 0)),
                      Tail(names))

\* Client._dispatch_interaction(event)
DispatchInteraction(env, fails) ==
    /\ Len(routed) < MaxEnvelopes
    /\ LET r == Route(env, fails)
           d == DispatchEach([tasks |-> tasks, waits |-> waits, futs |-> futures,
                              log |-> dispatched],
                             SelectSeq(r.trace, IsRouterEvent))
       IN /\ fails = "none" \/ Raised(r.steps, fails)
          /\ Len(d.tasks) <= MaxTasks
          /\ routed' = Append(routed, [env |-> env, fails |-> fails, trace |-> r.trace,
                                       settings |-> auto_defer,
                                       deferred |-> r.deferred,
                                       outcome |-> r.outcome])
          /\ tasks' = d.tasks
          /\ waits' = d.waits
          /\ futures' = d.futs
          /\ dispatched' = d.log
    /\ UNCHANGED <<extVars, listeners, nextListener, ready, logged, regVars,
                   interaction_scopes, pre_run_callback, post_run_callback>>

\* The cache pass of the interaction sync for one command of one scope:
\* self._interaction_scopes[str(cmd_data["id"])] = scope
CacheInteraction(scope, name) ==
    /\ Has(interactions, scope)
    /\ Has(interactions[scope], name)
    /\ ~Has(interaction_scopes, <<scope, name>>)
    /\ interaction_scopes' = Put(interaction_scopes, <<scope, name>>, scope)
    /\ UNCHANGED <<extVars, dispVars, regVars, pre_run_callback, post_run_callback, routed>>

---------------------------------------------------------------------------
(* The prefix command resolver: _dispatch_prefixed_commands *)

MaxPrefixes == 2       \* prefixes returned by generate_prefixes
MaxWords == 3          \* words of a message after its prefix

\* A str is the sequence of its characters
Whitespace == {" "}

\* str.startswith
StartsWith(s, p) == Len(p) <= Len(s) /\ SubSeq(s, 1, Len(p)) = p

\* str.endswith
EndsWith(s, p) == Len(p) <= Len(s) /\ SubSeq(s, Len(s) - Len(p) + 1, Len(s)) = p

\* str.removeprefix
RemovePrefix(s, p) == IF StartsWith(s, p) THEN SubSeq(s, Len(p) + 1, Len(s)) ELSE s

\* str.removesuffix
RemoveSuffix(s, p) == IF EndsWith(s, p) THEN SubSeq(s, 1, Len(s) - Len(p)) ELSE s

RECURSIVE LStrip(_)
LStrip(s) == IF s # <<>> /\ Head(s) \in Whitespace THEN LStrip(Tail(s)) ELSE s

RECURSIVE RStrip(_)
RStrip(s) ==
    IF s # <<>> /\ s[Len(s)] \in Whitespace THEN RStrip(SubSeq(s, 1, Len(s) - 1)) ELSE s

\* str.strip
Strip(s) == RStrip(LStrip(s))

\* The number of characters of s before its first whitespace character
RECURSIVE WordEnd(_)
WordEnd(s) == IF s = <<>> \/ Head(s) \in Whitespace THEN 0 ELSE 1 + WordEnd(Tail(s))

\* get_first_word(text): the next whitespace-delimited word of text, <<>>
\* (None) when text holds no word
FirstWord(s) == SubSeq(LStrip(s), 1, WordEnd(LStrip(s)))

\* MENTION_PREFIX, the sentinel standing for a mention of the bot
MENTION_PREFIX == <<"MENTION_PREFIX">>

\* str(self.user.id): the decimal digits of the bot's id
BotId == <<"1", "2">>

\* The index of the first character of s at or after i that is not ch
RECURSIVE SkipRun(_, _, _)
SkipRun(s, i, ch) == IF i <= Len(s) /\ s[i] = ch THEN SkipRun(s, i + 1, ch) ELSE i

\* self._mention_reg.search(content) with _mention_reg = ^(<@!?{id}*>\s): the
\* text matched, <<>> when there is no match. The star binds to the last digit
\* of the id only, which may so occur any number of times
MentionMatch(s, id) ==
    LET a == IF StartsWith(s, <<"<", "@", "!">>) THEN 3
             ELSE IF StartsWith(s, <<"<", "@">>) THEN 2 ELSE 0
        front == SubSeq(id, 1, Len(id) - 1)
        j == SkipRun(s, a + Len(front) + 1, id[Len(id)])
    IN IF /\ a > 0
          /\ SubSeq(s, a + 1, a + Len(front)) = front
          /\ j + 1 <= Len(s)
          /\ s[j] = ">"
          /\ s[j + 1] \in Whitespace
       THEN SubSeq(s, 1, j + 1)
       ELSE <<>>

\* for prefix in prefixes: the mention sentinel is replaced by the matched
\* mention text or skipped; the first prefix the content starts with is
\* prefix_used (matched is FALSE while prefix_used is None)
RECURSIVE PrefixUsed(_, _)
PrefixUsed(prefixes, content) ==
    IF prefixes = <<>> THEN [matched |-> FALSE, text |-> <<>>]
    ELSE LET prefix == IF Head(prefixes) = MENTION_PREFIX
                       THEN MentionMatch(content, BotId)
                       ELSE Head(prefixes)
         IN IF Head(prefixes) = MENTION_PREFIX /\ prefix = <<>>
            THEN PrefixUsed(Tail(prefixes), content)
            ELSE IF StartsWith(content, prefix)
            THEN [matched |-> TRUE, text |-> prefix]
            ELSE PrefixUsed(Tail(prefixes), content)

\* The paths of the PrefixedCommand objects: a command, its subcommand and the
\* subcommand of that one
ObjectPaths == {<<"x">>, <<"x", "y">>}

\* What the resolver reads of a PrefixedCommand object: enabled,
\* hierarchical_checking, whether it has an error_callback and whether its
\* extension has an extension_error
ObjectSettings ==
    [enabled : BOOLEAN, hierarchical_checking : BOOLEAN,
     error_callback : BOOLEAN, extension_error : BOOLEAN]

\* Objects that are enabled, without hierarchical checking and handlers
DefaultObjects ==
    [p \in ObjectPaths |-> [enabled |-> TRUE, hierarchical_checking |-> FALSE,
                            error_callback |-> FALSE, extension_error |-> FALSE]]

\* The characters of a command name
Str(key) == <<key>>

\* command.subcommands is not empty
HasSubcommands(path) ==
    \E p \in DOMAIN prefixed_objects :
        Len(p) = Len(path) + 1 /\ SubSeq(p, 1, Len(path)) = path

\* self.prefixed_commands.get(first_word) when command is the client (path
\* <<>>), command.subcommands.get(first_word) otherwise: the path of the
\* command found, <<>> when there is none
Lookup(path, first_word) ==
    IF path = <<>>
    THEN IF \E k \in DOMAIN prefixed_commands :
                /\ Str(k) = first_word
                /\ <<commands[prefixed_commands[k]].name>> \in DOMAIN prefixed_objects
         THEN LET k == CHOOSE k \in DOMAIN prefixed_commands : Str(k) = first_word
              IN <<commands[prefixed_commands[k]].name>>
         ELSE <<>>
    ELSE IF \E p \in DOMAIN prefixed_objects :
                /\ Len(p) = Len(path) + 1
                /\ SubSeq(p, 1, Len(path)) = path
                /\ Str(p[Len(p)]) = first_word
         THEN Append(path, first_word[1])
         ELSE <<>>

\* The awaited calls of the resolver, each of which may raise: the permission
\* check of the command at each depth of the walk, and the three stages
CanRunSteps == <<"can_run_1", "can_run_2", "can_run_3">>

ResolverSteps == {CanRunSteps[i] : i \in 1..Len(CanRunSteps)}
                     \cup {"pre_run", "command", "post_run"}

\* the extension's handler asked before the command's own
CheckFailedExtensionFirst(path) ==
    IF prefixed_objects[path].extension_error THEN "extension_error"
    ELSE IF prefixed_objects[path].error_callback THEN "error_callback"
    ELSE "command_error"

\* What a failed hierarchical check leads to: the command's error_callback,
\* else its extension's extension_error, else the CommandError event
CheckFailed(path) ==
    IF prefixed_objects[path].error_callback THEN "error_callback"
    ELSE IF prefixed_objects[path].extension_error THEN "extension_error"
    ELSE "command_error"

\* The while loop of the resolver from the command at path with
\* content_parameters left, after the given number of descents
RECURSIVE Walk(_, _, _, _, _)
Walk(path, content_parameters, descents, trace, fails) ==
    LET first_word == FirstWord(content_parameters)
        new_command == Lookup(path, first_word)
        rest == Strip(RemovePrefix(content_parameters, first_word))
        can_run == CanRunSteps[descents + 1]
    IN IF new_command = <<>> \/ ~prefixed_objects[new_command].enabled
       THEN [command |-> path, content_parameters |-> content_parameters,
             descents |-> descents, trace |-> trace, outcome |-> "walked"]
       ELSE IF HasSubcommands(new_command)
               /\ prefixed_objects[new_command].hierarchical_checking
       THEN IF fails = can_run
            THEN [command |-> new_command, content_parameters |-> rest,
                  descents |-> descents + 1,
                  trace |-> trace \o <<can_run, CheckFailed(new_command)>>,
                  outcome |-> "check_failed"]
            ELSE Walk(new_command, rest, descents + 1, Append(trace, can_run), fails)
       ELSE Walk(new_command, rest, descents + 1, trace, fails)

\* the body awaited before the pre-run hook
PrefixedStepsBodyFirst ==
    <<"command">>
        \o (IF pre_run_callback THEN <<"pre_run">> ELSE <<>>)
        \o (IF post_run_callback THEN <<"post_run">> ELSE <<>>)

\* The try body of a prefixed command: pre_run_callback when set,
\* _run_prefixed_command, post_run_callback when set
PrefixedSteps ==
    (IF pre_run_callback THEN <<"pre_run">> ELSE <<>>)
        \o <<"command">>
        \o (IF post_run_callback THEN <<"post_run">> ELSE <<>>)

\* context.invoke_target: the content without the prefix and without the
\* content_parameters left by the walk, stripped
InvokeTarget(content, prefix_used, content_parameters) ==
    Strip(RemoveSuffix(RemovePrefix(content, prefix_used), content_parameters))

\* How a lookup of the cache layer ends: the entity, or the error the HTTP
\* layer raised for it
Lookups == {"found", "NotFound", "Forbidden"}

\* Client.get_context(data, interaction=...): the channel of the context it
\* builds and how the call ends. embedded says that the payload carried
\* the channel; lookup is how cache.fetch_channel ends when it did not
GetContext(interaction, embedded, lookup) ==
    IF embedded THEN [channel |-> "embedded", outcome |-> "returned"]
    ELSE IF lookup = "found" THEN [channel |-> "fetched", outcome |-> "returned"]
    ELSE IF interaction /\ lookup = "Forbidden"
    THEN [channel |-> "from_dict_factory", outcome |-> "returned"]
    ELSE [channel |-> "None", outcome |-> lookup]

\* try: return await self.cache.fetch_...(id); except NotFound: return None
FetchOrNone(lookup) ==
    IF lookup = "found" THEN [value |-> "found", outcome |-> "returned"]
    ELSE IF lookup = "NotFound" THEN [value |-> "None", outcome |-> "returned"]
    ELSE [value |-> "None", outcome |-> lookup]

\* A message as the resolver sees it: its content, whether a webhook or a bot
\* wrote it, whether the message object is in the cache or arrives within
\* the two seconds, and its channel ("present", or the outcome of the lookup
\* that backfills it)
Message(content, bot, available, channel) ==
    [content |-> content, bot |-> bot, available |-> available, channel |-> channel]

\* What the resolver has done when it returns before the walk
Unresolved(prefix_used, outcome) ==
    [prefix_used |-> prefix_used, command |-> <<>>, content_parameters |-> <<>>,
     invoke_target |-> <<>>, descents |-> 0, trace |-> <<>>, outcome |-> outcome]

\* _dispatch_prefixed_commands as a function of the message, of the prefixes
\* generate_prefixes returns and of the call that raises
Resolve(message, prefixes, fails) ==
    LET none == [matched |-> FALSE, text |-> <<>>]
        prefix_used == PrefixUsed(prefixes, message.content)
        w == Walk(<<>>, RemovePrefix(message.content, prefix_used.text), 0, <<>>, fails)
    IN IF prefixed_commands = <<>> THEN Unresolved(none, "returned")
       ELSE IF message.content = <<>> THEN Unresolved(none, "returned")
       ELSE IF message.bot THEN Unresolved(none, "returned")
       ELSE IF ~message.available THEN Unresolved(none, "returned")
       ELSE IF ~prefix_used.matched \/ prefix_used.text = <<>>
       THEN Unresolved(prefix_used, "returned")
       ELSE IF GetContext(FALSE, message.channel = "present", message.channel).outcome
                   # "returned"
       THEN Unresolved(prefix_used,
                       GetContext(FALSE, message.channel = "present",
                                  message.channel).outcome)
       ELSE IF w.outcome = "check_failed"
       THEN [prefix_used |-> prefix_used, command |-> w.command,
             content_parameters |-> w.content_parameters, invoke_target |-> <<>>,
             descents |-> w.descents, trace |-> w.trace, outcome |-> "returned"]
       ELSE IF w.command = <<>>
       THEN [prefix_used |-> prefix_used, command |-> <<>>,
             content_parameters |-> w.content_parameters, invoke_target |-> <<>>,
             descents |-> w.descents, trace |-> w.trace, outcome |-> "returned"]
       ELSE [prefix_used |-> prefix_used, command |-> w.command,
             content_parameters |-> w.content_parameters,
             invoke_target |->
                 InvokeTarget(message.content, prefix_used.text, w.content_parameters),
             descents |-> w.descents,
             trace |-> w.trace \o TryFinally(PrefixedSteps, fails, "command_error",
                                            "command_completion"),
             outcome |-> "returned"]

\* Client._dispatch_prefixed_commands(event)
DispatchPrefixedCommands(message, prefixes, fails) ==
    /\ LET r == Resolve(message, prefixes, fails)
           d == DispatchEach([tasks |-> tasks, waits |-> waits, futs |-> futures,
                              log |-> dispatched],
                             SelectSeq(r.trace, IsRouterEvent))
       IN /\ fails = "none" \/ \E i \in 1..Len(r.trace) : r.trace[i] = fails
          /\ Len(d.tasks) <= MaxTasks
          /\ resolved' = Append(resolved, [message |-> message, prefixes |-> prefixes,
                                           fails |-> fails,
                                           table |-> prefixed_commands,
                                           result |-> r])
          /\ tasks' = d.tasks
          /\ waits' = d.waits
          /\ futures' = d.futs
          /\ dispatched' = d.log
    /\ UNCHANGED <<listeners, nextListener, ready, logged, regVars, routerVars,
                   prefixed_objects, syncVars, contexts, lateVars>>

\* A message of a user, with its message object and its channel at hand
PlainMessage(content) == Message(content, FALSE, TRUE, "present")

\* The prefixes generate_prefixes may return, as a tuple: the empty string,
\* a prefix that begins another one, a letter, and the mention sentinel
PrefixTexts == {<<>>, <<"!">>, <<"!", "!">>, <<"?">>, <<"p">>, MENTION_PREFIX}

PrefixLists == UNION {[1..n -> PrefixTexts] : n \in 0..MaxPrefixes}

\* What a message begins with: nothing, the prefixes, a letter in the other
\* case, and mentions of the bot and of other users, in the plain and in the
\* nickname form, followed by whitespace or not
Leads ==
    {<<>>, <<"!">>, <<"!", "!">>, <<"?">>, <<"p">>, <<"P">>,
     <<"<", "@", "1", "2", ">", " ">>, <<"<", "@", "!", "1", "2", ">", " ">>,
     <<"<", "@", "1", "2", ">">>, <<"<", "@", "1", ">", " ">>,
     <<"<", "@", "1", "2", "2", ">", " ">>, <<"<", "@", "!", "1", "3", ">", " ">>,
     <<"<", "@", "2", ">", " ">>}

PrefixContents == {<<>>} \cup {lead \o <<"x">> : lead \in Leads}

\* Messages with every lead, and one content from every kind of author, with
\* and without its message object and its channel
PrefixMessages ==
    {PlainMessage(content) : content \in PrefixContents}
        \cup {Message(<<"!", "x">>, bot, available, channel) :
                  bot \in BOOLEAN, available \in BOOLEAN,
                  channel \in {"present", "found", "NotFound"}}

\* words joined by sep
RECURSIVE Join(_, _)
Join(words, sep) ==
    IF words = <<>> THEN <<>>
    ELSE IF Len(words) = 1 THEN Head(words)
    ELSE Head(words) \o sep \o Join(Tail(words), sep)

\* The words of a message: the command name, its alias and subcommand name,
\* and a word that begins with a name and names nothing
ContentWords == {<<"x">>, <<"y">>, <<"x", "y">>}

WordLists == UNION {[1..n -> ContentWords] : n \in 0..MaxWords}

\* The prefix "!" and words separated by one or by two blanks, the same with
\* a blank after the prefix, and the prefix "?" and words separated by one
\* blank
ResolverContents ==
    {<<"!">> \o Join(words, sep) :
         words \in WordLists, sep \in {<<" ">>, <<" ", " ">>}}
        \cup {<<"!", " ">> \o Join(words, <<" ">>) : words \in WordLists \ {<<>>}}
        \cup {<<"?">> \o Join(words, <<" ">>) : words \in WordLists}

ResolverMessages == {PlainMessage(content) : content \in ResolverContents}

\* Tables in which a command without subcommands has the settings that are
\* read of commands with subcommands only at their defaults
ObjectTables ==
    {t \in [ObjectPaths -> ObjectSettings] :
         \A p \in ObjectPaths :
             (\A q \in ObjectPaths : Len(q) <= Len(p))
                 => /\ ~t[p].hierarchical_checking
                    /\ ~t[p].error_callback
                    /\ ~t[p].extension_error}

\* The service holding no application command in any scope
NoRemoteCommands == [scope \in Scopes |-> <<>>]

---------------------------------------------------------------------------
(* Synchronisation of the application commands: synchronise_interactions *)

\* str(cmd.name): the base word of a resolved name
BaseName(name) == name[1]

\* The id the service gives the command of a name in a scope
CommandId(scope, base) == <<scope, <<base>>>>

\* self.interactions.get(scope, {}): the resolved names registered in a scope
LocalNames(scope) == IF Has(interactions, scope) THEN DOMAIN interactions[scope] ELSE {}

\* application_commands_to_dict(self.interactions, self)[scope], the entry of
\* a base name: the canonical form of the command, with the subcommands
\* registered under that name merged into it
LocalJson(scope, base) ==
    [name |-> base, options |-> {n \in LocalNames(scope) : BaseName(n) = base},
     extra |-> "none"]

\* A command as the service reports it: the payload fields and id,
\* application_id and version
RemoteCommand(scope, payload) ==
    [id |-> CommandId(scope, payload.name), application_id |-> "app", version |-> 1,
     name |-> payload.name, options |-> payload.options, extra |-> payload.extra]

\* {k: v for k, v in remote_cmd_json.items() if k not in ("id",
\* "application_id", "version")}
RemotePayload(remote) ==
    [name |-> remote.name, options |-> remote.options, extra |-> remote.extra]

\* sync_needed(local_cmd_json, remote_cmd_json): there is no remote command,
\* or its canonical form differs from the local one; fields the local form
\* does not know are not compared
SyncNeeded(local, remotes) ==
    \/ remotes = {}
    \/ \E r \in remotes : r.name # local.name \/ r.options # local.options

\* the id of the response never equal to the cmd_id kept
RemoteOfUnconverted(ids, remote, scope, name) == {}

\* next(v for v in remote_commands if int(v["id"]) == local_cmd.cmd_id.get(scope)):
\* the commands of remote whose id is the cmd_id of the local command
RemoteOf(ids, remote, scope, name) ==
    {r \in remote : Has(ids, <<scope, name>>) /\ r.id = ids[<<scope, name>>]}

\* What one local command adds to sync_payload: the local payload when a sync
\* is needed, the remote payload when it is not and nothing is deleted, the
\* local payload when it is not and unused commands are deleted
PayloadEntry(local, remotes, delete) ==
    IF SyncNeeded(local, remotes) THEN {local}
    ELSE IF ~delete /\ remotes # {} THEN {RemotePayload(r) : r \in remotes}
    ELSE IF delete THEN {local}
    ELSE {}

\* sync_payload after the loop over the local commands and the removal of
\* duplicates
SyncPayload(ids, remote, scope, delete) ==
    UNION {PayloadEntry(LocalJson(scope, BaseName(n)), RemoteOf(ids, remote, scope, n), delete) :
               n \in LocalNames(scope)}

\* sync_needed_flag after the loop
SyncNeededFlag(ids, remote, scope) ==
    \E n \in LocalNames(scope) :
        SyncNeeded(LocalJson(scope, BaseName(n)), RemoteOf(ids, remote, scope, n))

\* the overwrite issued whenever unused commands are deleted
OverwriteNeededOnDelete(flag, payload, remote, delete) == flag \/ delete

\* sync_needed_flag or (_delete_cmds and len(sync_payload) < len(remote_commands))
OverwriteNeeded(flag, payload, remote, delete) ==
    flag \/ (delete /\ Cardinality(payload) < Cardinality(remote))

\* The ids of the local commands of a scope that the given remote commands
\* name: cmd.cmd_id[scope] = int(cmd_data["id"]) for the command of that name
\* or of a composed name beginning with it
IdsCached(ids, remote, scope) ==
    LET named == {n \in LocalNames(scope) : \E r \in remote : r.name = BaseName(n)}
    IN [k \in DOMAIN ids \cup {<<scope, n>> : n \in named} |->
            IF k[1] = scope /\ k[2] \in named
            THEN CommandId(scope, BaseName(k[2]))
            ELSE ids[k]]

\* self._interaction_scopes[id] = scope for the given remote commands that
\* name a local command of the scope
ScopesCached(cache, remote, scope) ==
    LET found == {r.id : r \in {r \in remote :
                                   \E n \in LocalNames(scope) : r.name = BaseName(n)}}
    IN [k \in DOMAIN cache \cup found |-> IF k \in found THEN scope ELSE cache[k]]

\* self._interaction_scopes[cmd_data["id"]] = scope for every command of the
\* response of an overwrite
ScopesCachedAll(cache, remote, scope) ==
    LET found == {r.id : r \in remote}
    IN [k \in DOMAIN cache \cup found |-> IF k \in found THEN scope ELSE cache[k]]

\* What the service answers: nothing special, "forbidden" to the fetch of a
\* scope, or "forbidden" to the overwrite of a scope
Denials == [Scopes -> {"none", "fetch", "overwrite"}]

ScopeOrder == <<"global", "guild">>

\* The state a synchronisation works on: the commands the service holds, the
\* cmd_id of the local commands, _interaction_scopes, the requests made per
\* scope and the exception raised, if any
SyncState ==
    [remote |-> remote_commands, ids |-> cmd_id, cache |-> interaction_scopes,
     calls |-> <<>>, outcome |-> "None"]

\* _cache_interactions: for every scope of bot_scopes whose fetch is not
\* forbidden, the ids of the local commands the service holds by name
RECURSIVE CacheInteractions(_, _, _)
CacheInteractions(st, scopes, denied) ==
    IF scopes = <<>> THEN st
    ELSE LET scope == Head(scopes)
             rest == Tail(scopes)
         IN IF denied[scope] = "fetch"
            THEN CacheInteractions(st, rest, denied)
            ELSE CacheInteractions(
                     [st EXCEPT !.ids = IdsCached(st.ids, st.remote[scope], scope),
                                !.cache = ScopesCached(st.cache, st.remote[scope], scope)],
                     rest, denied)

\* sync_scope(cmd_scope)
SyncScope(st, scope, delete, denied) ==
    LET remote == st.remote[scope]
        payload == SyncPayload(st.ids, remote, scope, delete)
        flag == SyncNeededFlag(st.ids, remote, scope)
        request == [scope |-> scope, fetched |-> TRUE, remote |-> remote,
                    payload |-> payload, flag |-> flag, overwrite |-> "none"]
        response == {RemoteCommand(scope, p) : p \in payload}
    IN IF denied[scope] = "fetch"
       THEN [st EXCEPT !.calls = Append(@, [request EXCEPT !.fetched = FALSE,
                                                          !.remote = {},
                                                          !.payload = {},
                                                          !.flag = FALSE])]
       ELSE IF ~OverwriteNeeded(flag, payload, remote, delete)
       THEN [st EXCEPT !.calls = Append(@, request)]
       ELSE IF denied[scope] = "overwrite"
       THEN [st EXCEPT !.calls = Append(@, [request EXCEPT !.overwrite = "Forbidden"]),
                       !.outcome = "InteractionMissingAccess"]
       ELSE [st EXCEPT !.calls = Append(@, [request EXCEPT !.overwrite = "done"]),
                       !.remote = [@ EXCEPT ![scope] = response],
                       !.ids = IdsCached(st.ids, response, scope),
                       !.cache = ScopesCachedAll(st.cache, response, scope)]

\* asyncio.gather(*[sync_scope(scope) for scope in cmd_scopes]): every scope
\* is synchronised, whether one of them raises or not
RECURSIVE SyncScopes(_, _, _, _)
SyncScopes(st, scopes, delete, denied) ==
    IF scopes = <<>> THEN st
    ELSE SyncScopes(SyncScope(st, Head(scopes), delete, denied), Tail(scopes),
                    delete, denied)

\* the scopes of a set, in a fixed order
InOrder(S) == SelectSeq(ScopeOrder, LAMBDA scope : scope \in S)

\* bot_scopes of _cache_interactions: the guilds of the cache and the global
\* scope when unused commands are deleted, the scopes with commands otherwise
BotScopes == IF del_unused_app_cmd THEN Scopes ELSE DOMAIN interactions

\* cmd_scopes: the scopes given, else every guild and the global scope when
\* unused commands are deleted, else the scopes with commands and the global
\* scope
CmdScopes(scopes) ==
    IF scopes # <<"MISSING">> THEN scopes
    ELSE IF del_unused_app_cmd THEN InOrder(Scopes)
    ELSE InOrder(DOMAIN interactions \cup {"global"})

\* The commands the service may hold in every scope before the first
\* synchronisation: one named a in the canonical form of the local command a
\* with a field the local form does not know, one named a in another form,
\* and one that no local command names
HeldPayloads ==
    [kept |-> [name |-> "a", options |-> {<<"a">>}, extra |-> "kept"],
     other |-> [name |-> "a", options |-> {<<"a", "b">>, <<"a", "z">>}, extra |-> "none"],
     unused |-> [name |-> "z", options |-> {<<"z">>}, extra |-> "none"]]

InitialRemotes ==
    {[scope \in Scopes |-> {RemoteCommand(scope, p) : p \in held}] :
         held \in {{}, {HeldPayloads.kept, HeldPayloads.unused}, {HeldPayloads.other}}}

\* The service answering "forbidden" to no request, or to the fetch or to the
\* overwrite of one scope
DenialCases ==
    {denied \in Denials : Cardinality({scope \in Scopes : denied[scope] # "none"}) <= 1}

\* Client.synchronise_interactions(scopes=..., delete_commands=...)
SynchroniseInteractions(scopes, delete_commands, denied) ==
    /\ LET delete == IF delete_commands = "MISSING" THEN del_unused_app_cmd
                     ELSE delete_commands = "True"
           cached == CacheInteractions(SyncState, InOrder(BotScopes), denied)
           st == SyncScopes(cached, CmdScopes(scopes), delete, denied)
       IN /\ remote_commands' = st.remote
          /\ cmd_id' = st.ids
          /\ interaction_scopes' = st.cache
          /\ synced' = <<[scopes |-> scopes, delete_commands |-> delete_commands,
                          delete |-> delete, denied |-> denied,
                          local |-> interactions, before |-> remote_commands,
                          calls |-> st.calls, outcome |-> st.outcome]>>
    /\ UNCHANGED <<dispVars, regVars, pre_run_callback, post_run_callback, routed,
                   resolverVars, del_unused_app_cmd, contexts, lateVars>>

\* The calls of get_context and of the fetch_* aliases the model records
MaxLookups == 2

\* One call of get_context, recorded with how it ended
GetContextCall(interaction, embedded, lookup) ==
    /\ Len(contexts) < MaxLookups
    /\ contexts' = Append(contexts,
                          [call |-> "get_context", interaction |-> interaction,
                           embedded |-> embedded, lookup |-> lookup,
                           channel |-> GetContext(interaction, embedded, lookup).channel,
                           outcome |-> GetContext(interaction, embedded, lookup).outcome])
    /\ UNCHANGED <<dispVars, regVars, routerVars, resolverVars, syncVars, lateVars>>

\* A call of a fetch_* alias as the model records it
FetchRecord(call, lookup) ==
    [call |-> call, interaction |-> FALSE, embedded |-> FALSE, lookup |-> lookup,
     channel |-> FetchOrNone(lookup).value, outcome |-> FetchOrNone(lookup).outcome]

\* Client.fetch_guild(guild_id)
fetch_guild(lookup) ==
    /\ Len(contexts) < MaxLookups
    /\ contexts' = Append(contexts, FetchRecord("fetch_guild", lookup))
    /\ UNCHANGED <<dispVars, regVars, routerVars, resolverVars, syncVars, lateVars>>

\* Client.fetch_channel(channel_id)
fetch_channel(lookup) ==
    /\ Len(contexts) < MaxLookups
    /\ contexts' = Append(contexts, FetchRecord("fetch_channel", lookup))
    /\ UNCHANGED <<dispVars, regVars, routerVars, resolverVars, syncVars, lateVars>>

\* Client.fetch_user(user_id)
fetch_user(lookup) ==
    /\ Len(contexts) < MaxLookups
    /\ contexts' = Append(contexts, FetchRecord("fetch_user", lookup))
    /\ UNCHANGED <<dispVars, regVars, routerVars, resolverVars, syncVars, lateVars>>

\* Client.fetch_member(guild_id, user_id)
fetch_member(lookup) ==
    /\ Len(contexts) < MaxLookups
    /\ contexts' = Append(contexts, FetchRecord("fetch_member", lookup))
    /\ UNCHANGED <<dispVars, regVars, routerVars, resolverVars, syncVars, lateVars>>

---------------------------------------------------------------------------
(* The bulk refresh of the command cache: _cache_interactions and wrap *)

\* bot_scopes of _cache_interactions(warn_missing)
RefreshScopes(warn_missing) ==
    IF warn_missing \/ del_unused_app_cmd THEN Scopes ELSE DOMAIN interactions

\* _cache_interactions up to the gather: a new lock, and one wrap call per
\* scope of bot_scopes
CacheInteractionsStart(warn_missing) ==
    /\ wraps = <<>>
    /\ RefreshScopes(warn_missing) # {}
    /\ wraps' = [scope \in RefreshScopes(warn_missing) |-> "created"]
    /\ req_lock' = [locked |-> FALSE, waiters |-> <<>>]
    /\ UNCHANGED <<dispVars, regVars, routerVars, resolverVars, syncVars, contexts,
                   auto_defer, event_names, readyVars>>

\* a wrap call that sleeps without taking the lock
WrapAcquireUnlocked(scope) ==
    /\ Has(wraps, scope)
    /\ wraps[scope] = "created"
    /\ wraps' = [wraps EXCEPT ![scope] = "sleeping"]
    /\ UNCHANGED <<dispVars, regVars, routerVars, resolverVars, syncVars, contexts,
                   auto_defer, event_names, req_lock, readyVars>>

\* wrap reaches "async with req_lock": it takes the lock when the lock is
\* free and nobody waits for it, and queues for it otherwise
WrapAcquire(scope) ==
    /\ Has(wraps, scope)
    /\ wraps[scope] = "created"
    /\ IF ~req_lock.locked /\ req_lock.waiters = <<>>
       THEN /\ req_lock' = [req_lock EXCEPT !.locked = TRUE]
            /\ wraps' = [wraps EXCEPT ![scope] = "sleeping"]
       ELSE /\ req_lock' = [req_lock EXCEPT !.waiters = Append(@, scope)]
            /\ wraps' = [wraps EXCEPT ![scope] = "waiting"]
    /\ UNCHANGED <<dispVars, regVars, routerVars, resolverVars, syncVars, contexts,
                   auto_defer, event_names, readyVars>>

\* The first waiter of the released lock takes it and starts its sleep
WrapWake(scope) ==
    /\ Has(wraps, scope)
    /\ wraps[scope] = "waiting"
    /\ ~req_lock.locked
    /\ Head(req_lock.waiters) = scope
    /\ req_lock' = [locked |-> TRUE, waiters |-> Tail(req_lock.waiters)]
    /\ wraps' = [wraps EXCEPT ![scope] = "sleeping"]
    /\ UNCHANGED <<dispVars, regVars, routerVars, resolverVars, syncVars, contexts,
                   auto_defer, event_names, readyVars>>

\* asyncio.sleep(0.1) is over: wrap leaves the "async with" block, which
\* releases the lock, and calls self.http.get_application_commands
WrapFetch(scope) ==
    /\ Has(wraps, scope)
    /\ wraps[scope] = "sleeping"
    /\ req_lock' = [req_lock EXCEPT !.locked = FALSE]
    /\ wraps' = [wraps EXCEPT ![scope] = "in_flight"]
    /\ UNCHANGED <<dispVars, regVars, routerVars, resolverVars, syncVars, contexts,
                   auto_defer, event_names, readyVars>>

\* get_application_commands returns the commands of the scope, or raises
\* Forbidden, for which wrap returns MISSING
WrapReturn(scope, forbidden) ==
    /\ Has(wraps, scope)
    /\ wraps[scope] = "in_flight"
    /\ wraps' = [wraps EXCEPT ![scope] = IF forbidden THEN "MISSING" ELSE "returned"]
    /\ UNCHANGED <<dispVars, regVars, routerVars, resolverVars, syncVars, contexts,
                   auto_defer, event_names, req_lock, readyVars>>

\* _cache_interactions after the gather: the ids of the scopes whose fetch
\* returned are cached
CacheInteractionsFinish ==
    /\ wraps # <<>>
    /\ \A scope \in DOMAIN wraps : wraps[scope] \in {"returned", "MISSING"}
    /\ LET denied == [scope \in Scopes |->
                          IF Has(wraps, scope) /\ wraps[scope] = "MISSING"
                          THEN "fetch" ELSE "none"]
           cached == CacheInteractions(SyncState, InOrder(DOMAIN wraps), denied)
       IN /\ cmd_id' = cached.ids
          /\ interaction_scopes' = cached.cache
    /\ wraps' = <<>>
    /\ UNCHANGED <<dispVars, regVars, pre_run_callback, post_run_callback, routed,
                   resolverVars, remote_commands, del_unused_app_cmd, synced, contexts,
                   auto_defer, event_names, req_lock, readyVars>>

---------------------------------------------------------------------------
(* Event names: Listener.create and add_event_processor *)

MaxNameLen == 4        \* characters of an event name or of a function name

NameChars == {"_", "o", "n", "x"}

\* The names of length n
RECURSIVE NamesOfLen(_)
NamesOfLen(n) ==
    IF n = 0 THEN {<<>>}
    ELSE {Append(s, ch) : s \in NamesOfLen(n - 1), ch \in NameChars}

\* The names a caller or a function may have
Names == UNION {NamesOfLen(n) : n \in 0..MaxNameLen}

\* event_name left out
MISSING == <<"MISSING">>

\* the prefix removed before the underscores
NormalizePrefixFirst(name) ==
    LET rest == RemovePrefix(name, <<"o", "n", "_">>)
    IN SubSeq(rest, SkipRun(rest, 1, "_"), Len(rest))

\* name.lstrip("_").removeprefix("on_")
Normalize(name) ==
    RemovePrefix(SubSeq(name, SkipRun(name, 1, "_"), Len(name)), <<"o", "n", "_">>)

\* name = event_name, or coro.__name__ when event_name is MISSING, normalized
EventName(event_name, coro_name) ==
    Normalize(IF event_name = MISSING THEN coro_name ELSE event_name)

\* Listener.create(event_name)(coro): the event of the listener it returns
ListenerCreate(event_name, coro_name, is_coroutine) ==
    /\ event_names' =
           <<[call |-> "Listener.create", event_name |-> event_name,
              coro_name |-> coro_name,
              name |-> IF is_coroutine THEN EventName(event_name, coro_name) ELSE <<>>,
              outcome |-> IF is_coroutine THEN "returned" ELSE "TypeError"]>>
    /\ UNCHANGED <<dispVars, regVars, routerVars, resolverVars, syncVars, contexts,
                   auto_defer, refreshVars, readyVars>>

\* Client.add_event_processor(event_name)(coro): the key under which the
\* processor is stored
AddEventProcessor(event_name, coro_name) ==
    /\ event_names' =
           <<[call |-> "add_event_processor", event_name |-> event_name,
              coro_name |-> coro_name, name |-> EventName(event_name, coro_name),
              outcome |-> "returned"]>>
    /\ UNCHANGED <<dispVars, regVars, routerVars, resolverVars, syncVars, contexts,
                   auto_defer, refreshVars, readyVars>>

---------------------------------------------------------------------------
(* The processors of the auto-moderation events: AutoModEvents *)

\* The events the processors dispatch, by resolved name
AutoModEventNames ==
    {"auto_mod_exec", "auto_mod_created", "auto_mod_updated", "auto_mod_deleted"}

\* AutoModEvents._raw_auto_moderation_action_execution(event): self.dispatch(events.AutoModExec(action, channel, guild));
\* the payload of the event names the raw event whose data it was built from
raw_auto_moderation_action_execution ==
    /\ Cardinality(External(dispatched)) < MaxDispatch
    /\ Len(tasks) + Len(listeners["auto_mod_exec"]) <= MaxTasks
    /\ LET d == DispatchOn(tasks, waits, futures, dispatched,
                           Event("auto_mod_exec", "raw_auto_moderation_action_execution", 0, 0))
       IN /\ tasks' = d.tasks
          /\ waits' = d.waits
          /\ futures' = d.futs
          /\ dispatched' = d.log
    /\ UNCHANGED <<extVars, routerVars, listeners, nextListener, ready, logged, regVars>>

\* AutoModEvents.raw_auto_moderation_rule_create(event): self.dispatch(events.AutoModCreated(guild, rule));
\* the payload of the event names the raw event whose data it was built from
raw_auto_moderation_rule_create ==
    /\ Cardinality(External(dispatched)) < MaxDispatch
    /\ Len(tasks) + Len(listeners["auto_mod_created"]) <= MaxTasks
    /\ LET d == DispatchOn(tasks, waits, futures, dispatched,
                           Event("auto_mod_created", "raw_auto_moderation_rule_create", 0, 0))
       IN /\ tasks' = d.tasks
          /\ waits' = d.waits
          /\ futures' = d.futs
          /\ dispatched' = d.log
    /\ UNCHANGED <<extVars, routerVars, listeners, nextListener, ready, logged, regVars>>

\* AutoModEvents.raw_auto_moderation_rule_delete(event): self.dispatch(events.AutoModUpdated(guild, rule));
\* the payload of the event names the raw event whose data it was built from
raw_auto_moderation_rule_delete ==
    /\ Cardinality(External(dispatched)) < MaxDispatch
    /\ Len(tasks) + Len(listeners["auto_mod_updated"]) <= MaxTasks
    /\ LET d == DispatchOn(tasks, waits, futures, dispatched,
                           Event("auto_mod_updated", "raw_auto_moderation_rule_delete", 0, 0))
       IN /\ tasks' = d.tasks
          /\ waits' = d.waits
          /\ futures' = d.futs
          /\ dispatched' = d.log
    /\ UNCHANGED <<extVars, routerVars, listeners, nextListener, ready, logged, regVars>>

\* AutoModEvents.raw_auto_moderation_rule_update(event): self.dispatch(events.AutoModDeleted(guild, rule));
\* the payload of the event names the raw event whose data it was built from
raw_auto_moderation_rule_update ==
    /\ Cardinality(External(dispatched)) < MaxDispatch
    /\ Len(tasks) + Len(listeners["auto_mod_deleted"]) <= MaxTasks
    /\ LET d == DispatchOn(tasks, waits, futures, dispatched,
                           Event("auto_mod_deleted", "raw_auto_moderation_rule_update", 0, 0))
       IN /\ tasks' = d.tasks
          /\ waits' = d.waits
          /\ futures' = d.futs
          /\ dispatched' = d.log
    /\ UNCHANGED <<extVars, routerVars, listeners, nextListener, ready, logged, regVars>>

---------------------------------------------------------------------------
(* The websocket-ready handler: _on_websocket_ready *)

MaxHandlers == 2       \* executions of _on_websocket_ready

\* The guilds the gateway can name
Guilds == {"g1", "g2"}

\* The names of the events of the handler, and of the event its temporary
\* listener is registered under
ReadyEventNames == {"startup", "ready", "raw_guild_create"}

\* self._ready.set() on a task list: every task suspended in wait_until_ready
\* is woken
Woken(ts) ==
    [i \in 1..Len(ts) |->
         IF ts[i].pc = "wait_ready" THEN [ts[i] EXCEPT !.pc = "woken"] ELSE ts[i]]

\* The end of the handler from its last suspension on: dispatch(Startup()) in
\* the startup branch, then self._ready.set() and dispatch(Ready())
HandlerEnd(first) ==
    LET now == [tasks |-> tasks, waits |-> waits, futs |-> futures, log |-> dispatched]
        d1 == IF first
              THEN DispatchOn(now.tasks, now.waits, now.futs, now.log,
                              Event("startup", "p", 0, 0))
              ELSE now
    IN DispatchOn(Woken(d1.tasks), d1.waits, d1.futs, d1.log, Event("ready", "p", 0, 0))

\* The handler up to its first suspension: the startup branch goes to wait for
\* the guilds; the reconnect branch registers its temporary listener of
\* raw_guild_create first
WebsocketReady(expected_guilds) ==
    /\ Len(handlers) < MaxHandlers
    /\ IF ~startup
       THEN /\ handlers' = Append(handlers,
                                  [branch |-> "startup", pc |-> "wait",
                                   expected_guilds |-> expected_guilds,
                                   ready_guilds |-> {}, listener |-> 0, init |-> FALSE])
            /\ UNCHANGED <<listeners, nextListener>>
       ELSE /\ handlers' = Append(handlers,
                                  [branch |-> "reconnect", pc |-> "wait",
                                   expected_guilds |-> expected_guilds,
                                   ready_guilds |-> {}, listener |-> nextListener + 1,
                                   init |-> FALSE])
            /\ listeners' = [listeners EXCEPT !["raw_guild_create"] =
                                 ListenersAfterAdd(@, Listener(nextListener + 1,
                                                               "raw_guild_create",
                                                               FALSE, FALSE, FALSE))]
            /\ nextListener' = nextListener + 1
    /\ UNCHANGED <<waits, futures, tasks, dispatched, ready, logged, regVars, routerVars,
                   resolverVars, syncVars, contexts, auto_defer, refreshVars, event_names,
                   startup, guild_event, guild_cache>>

\* A raw guild-create event: the guild is cached, _guild_event is set, and the
\* temporary listener of every reconnect execution adds the guild to its
\* ready_guilds
GuildCreate(g) ==
    /\ guild_cache' = guild_cache \cup {g}
    /\ guild_event' = TRUE
    /\ handlers' = [h \in 1..Len(handlers) |->
                        IF handlers[h].branch = "reconnect" /\ handlers[h].pc = "wait"
                        THEN [handlers[h] EXCEPT !.ready_guilds = @ \cup {g}]
                        ELSE handlers[h]]
    /\ UNCHANGED <<dispVars, regVars, routerVars, resolverVars, syncVars, contexts,
                   auto_defer, refreshVars, event_names, startup>>

\* The startup branch after its wait loop, when no suspension follows:
\* _startup is set already, so Startup and Ready are dispatched at once
StartupEnd(h) ==
    /\ handlers' = [handlers EXCEPT ![h].pc = "done"]
    /\ startup' = TRUE
    /\ ready' = TRUE
    /\ tasks' = HandlerEnd(TRUE).tasks
    /\ waits' = HandlerEnd(TRUE).waits
    /\ futures' = HandlerEnd(TRUE).futs
    /\ dispatched' = HandlerEnd(TRUE).log

\* The startup branch leaves its wait loop: `if not self._startup: await
\* self._init_interactions()`, else the end of the handler
StartupLeaveLoop(h) ==
    IF ~startup
    THEN /\ handlers' = [handlers EXCEPT ![h].pc = "init", ![h].init = TRUE]
         /\ UNCHANGED <<startup, ready, tasks, waits, futures, dispatched>>
    ELSE StartupEnd(h)

\* asyncio.wait_for(self._guild_event.wait(), ...) returns in the startup
\* branch: the event is cleared, and the loop is left when every expected
\* guild is cached
StartupWait(h) ==
    /\ h \in 1..Len(handlers)
    /\ handlers[h].branch = "startup"
    /\ handlers[h].pc = "wait"
    /\ guild_event
    /\ guild_event' = FALSE
    /\ IF Cardinality(guild_cache) = Cardinality(handlers[h].expected_guilds)
       THEN StartupLeaveLoop(h)
       ELSE UNCHANGED <<handlers, startup, ready, tasks, waits, futures, dispatched>>
    /\ UNCHANGED <<listeners, nextListener, logged, regVars, routerVars, resolverVars,
                   syncVars, contexts, auto_defer, refreshVars, event_names, guild_cache>>

\* The wait of the startup branch times out: the loop is left
StartupTimeout(h) ==
    /\ h \in 1..Len(handlers)
    /\ handlers[h].branch = "startup"
    /\ handlers[h].pc = "wait"
    /\ ~guild_event
    /\ StartupLeaveLoop(h)
    /\ UNCHANGED <<listeners, nextListener, logged, regVars, routerVars, resolverVars,
                   syncVars, contexts, auto_defer, refreshVars, event_names, guild_cache,
                   guild_event>>

\* _init_interactions returns: with sync_interactions at its default the
\* registered commands are synchronised with the service; then the handler
\* sets _startup, dispatches Startup, sets _ready and dispatches Ready
InitInteractionsDone(h) ==
    /\ h \in 1..Len(handlers)
    /\ handlers[h].pc = "init"
    /\ LET denied == [scope \in Scopes |-> "none"]
           cached == CacheInteractions(SyncState, InOrder(BotScopes), denied)
           st == SyncScopes(cached, CmdScopes(<<"MISSING">>), del_unused_app_cmd, denied)
       IN /\ remote_commands' = st.remote
          /\ cmd_id' = st.ids
          /\ interaction_scopes' = st.cache
          /\ synced' = <<[scopes |-> <<"MISSING">>, delete_commands |-> "MISSING",
                          delete |-> del_unused_app_cmd, denied |-> denied,
                          local |-> interactions, before |-> remote_commands,
                          calls |-> st.calls, outcome |-> st.outcome]>>
    /\ StartupEnd(h)
    /\ UNCHANGED <<listeners, nextListener, logged, regVars, pre_run_callback,
                   post_run_callback, routed, resolverVars, del_unused_app_cmd, contexts,
                   auto_defer, refreshVars, event_names, guild_cache, guild_event>>

\* The reconnect branch leaves its wait loop: the temporary listener is
\* removed, _ready is set and Ready is dispatched
ReconnectEnd(h) ==
    /\ handlers' = [handlers EXCEPT ![h].pc = "done"]
    /\ listeners' = [listeners EXCEPT !["raw_guild_create"] =
                         SelectSeq(@, LAMBDA l : l.id # handlers[h].listener)]
    /\ ready' = TRUE
    /\ tasks' = HandlerEnd(FALSE).tasks
    /\ waits' = HandlerEnd(FALSE).waits
    /\ futures' = HandlerEnd(FALSE).futs
    /\ dispatched' = HandlerEnd(FALSE).log

\* asyncio.wait_for(self._guild_event.wait(), ...) returns in the reconnect
\* branch: the loop is left when as many guilds are ready as are expected,
\* and entered again otherwise; the event stays set
ReconnectWait(h) ==
    /\ h \in 1..Len(handlers)
    /\ handlers[h].branch = "reconnect"
    /\ handlers[h].pc = "wait"
    /\ guild_event
    /\ IF Cardinality(handlers[h].ready_guilds) = Cardinality(handlers[h].expected_guilds)
       THEN ReconnectEnd(h)
       ELSE UNCHANGED <<handlers, listeners, ready, tasks, waits, futures, dispatched>>
    /\ UNCHANGED <<nextListener, logged, regVars, routerVars, resolverVars, syncVars,
                   contexts, auto_defer, refreshVars, event_names, startup, guild_cache,
                   guild_event>>

\* The wait of the reconnect branch times out: the loop is left
ReconnectTimeout(h) ==
    /\ h \in 1..Len(handlers)
    /\ handlers[h].branch = "reconnect"
    /\ handlers[h].pc = "wait"
    /\ ~guild_event
    /\ ReconnectEnd(h)
    /\ UNCHANGED <<nextListener, logged, regVars, routerVars, resolverVars, syncVars,
                   contexts, auto_defer, refreshVars, event_names, startup, guild_cache,
                   guild_event>>

---------------------------------------------------------------------------
(* Specifications *)

\* Client.__init__: the empty registration tables
InitTables ==
    /\ commands = <<>>
    /\ cmdChecks = <<>>
    /\ interactions = <<>>
    /\ interaction_tree = <<>>
    /\ prefixed_commands = <<>>
    /\ component_callbacks = <<>>
    /\ modal_callbacks = <<>>
    /\ lastCall = [op |-> "none", outcome |-> "none"]
    /\ interaction_scopes = <<>>
    /\ routed = <<>>
    /\ resolved = <<>>
    /\ synced = <<>>
    /\ cmd_id = <<>>
    /\ contexts = <<>>

\* Client.__init__ without auto_defer, and commands that set none and belong
\* to no extension
InitLate ==
    /\ auto_defer = [client |-> "disabled", command |-> "MISSING", extension |-> "none"]
    /\ wraps = <<>>
    /\ req_lock = [locked |-> FALSE, waiters |-> <<>>]
    /\ event_names = <<>>
    /\ startup = FALSE
    /\ guild_event = FALSE
    /\ guild_cache = {}
    /\ handlers = <<>>

\* Client.__init__
Init ==
    /\ listeners = [n \in EventNames \cup RouterEvents |-> <<>>]
    /\ nextListener = 0
    /\ waits = [n \in EventNames \cup RouterEvents |-> <<>>]
    /\ futures = <<>>
    /\ tasks = <<>>
    /\ dispatched = <<>>
    /\ ready = FALSE
    /\ logged = <<>>
    /\ enforce_interaction_perms = FALSE
    /\ debug_scope = "none"
    /\ InitTables
    /\ InitLate
    /\ prefixed_objects = DefaultObjects
    /\ remote_commands = NoRemoteCommands
    /\ del_unused_app_cmd = FALSE
    /\ pre_run_callback = FALSE
    /\ post_run_callback = FALSE

\* Listeners without readiness gating, dispatch and the execution units
Next ==
    \/ \E n \in ListenNames : AddListener(n, FALSE, FALSE, FALSE)
    \/ \E n \in ListenNames : Dispatch(n, "p")
    \/ \E t \in 1..MaxTasks : TaskStart(t)
    \/ \E t \in 1..MaxTasks : TaskFinish(t)
    \/ \E t \in 1..MaxTasks : TaskRaise(t)
    \/ \E t \in 1..MaxTasks : TaskCancel(t)

Spec == Init /\ [][Next]_vars

\* wait_for, its timeout, and dispatch
NextWait ==
    \/ \E n \in ListenNames, checks \in Checks : WaitFor(n, checks)
    \/ \E n \in ListenNames, p \in Payloads : Dispatch(n, p)
    \/ \E id \in 1..MaxWaits : Timeout(id)

SpecWait == Init /\ [][NextWait]_vars

\* add_listener with every combination of the default flags, and dispatch
NextListeners ==
    \/ \E n \in ListenNames, isDefault, disablesDefaults \in BOOLEAN :
           AddListener(n, isDefault, disablesDefaults, FALSE)
    \/ \E n \in ListenNames : Dispatch(n, "p")

SpecListeners == Init /\ [][NextListeners]_vars

\* Listeners that wait for readiness, on every kind of event: the start, the
\* wake-up and the cancellation of their execution units
NextGate ==
    \/ \E n \in EventNames : AddListener(n, FALSE, FALSE, TRUE)
    \/ \E n \in EventNames : Dispatch(n, "p")
    \/ \E t \in 1..MaxTasks : TaskStart(t)
    \/ \E t \in 1..MaxTasks : TaskResume(t)
    \/ \E t \in 1..MaxTasks : TaskCancel(t)
    \/ SetReady
    \/ ClearReady

SpecGate == Init /\ [][NextGate]_vars

\* Client.__init__ with either setting of the permission enforcement and of
\* the debug scope
InitRegistration ==
    /\ listeners = [n \in EventNames \cup RouterEvents |-> <<>>]
    /\ nextListener = 0
    /\ waits = [n \in EventNames \cup RouterEvents |-> <<>>]
    /\ futures = <<>>
    /\ tasks = <<>>
    /\ dispatched = <<>>
    /\ ready = FALSE
    /\ logged = <<>>
    /\ enforce_interaction_perms \in BOOLEAN
    /\ debug_scope \in {"none", "guild"}
    /\ InitTables
    /\ InitLate
    /\ prefixed_objects = DefaultObjects
    /\ remote_commands = NoRemoteCommands
    /\ del_unused_app_cmd = FALSE
    /\ pre_run_callback = FALSE
    /\ post_run_callback = FALSE

\* Registration of structured commands
NextInteractions ==
    \/ \E name \in ResolvedNames, scopes \in ScopeLists, type \in CommandTypes :
           AddInteraction(name, scopes, type, TRUE)
    \/ AddInteraction(<<"a">>, <<"global">>, "slash", FALSE)

SpecInteractions == InitRegistration /\ [][NextInteractions]_vars

\* Registration of prefixed commands and of component and modal callbacks
NextPrefixed ==
    \/ \E name \in Keys, aliases \in KeyLists : AddPrefixedCommand(name, aliases)
    \/ \E ids \in KeyLists \ {<<>>} : AddComponentCallback(ids)
    \/ \E ids \in KeyLists \ {<<>>} : AddModalCallback(ids)

SpecPrefixed == Init /\ [][NextPrefixed]_vars

\* Listeners and waiters of one event, dispatch, and the start of the
\* execution units
NextDispatch ==
    \/ AddListener("message_create", FALSE, FALSE, FALSE)
    \/ \E checks \in Checks : WaitFor("message_create", checks)
    \/ \E p \in Payloads : Dispatch("message_create", p)
    \/ \E t \in 1..MaxTasks : TaskStart(t)

SpecDispatch == Init /\ [][NextDispatch]_vars

\* Client.__init__ with or without the global pre-run and post-run callbacks
InitRouter ==
    /\ listeners = [n \in EventNames \cup RouterEvents |-> <<>>]
    /\ nextListener = 0
    /\ waits = [n \in EventNames \cup RouterEvents |-> <<>>]
    /\ futures = <<>>
    /\ tasks = <<>>
    /\ dispatched = <<>>
    /\ ready = FALSE
    /\ logged = <<>>
    /\ enforce_interaction_perms = FALSE
    /\ debug_scope = "none"
    /\ InitTables
    /\ InitLate
    /\ prefixed_objects = DefaultObjects
    /\ remote_commands = NoRemoteCommands
    /\ del_unused_app_cmd = FALSE
    /\ pre_run_callback \in BOOLEAN
    /\ post_run_callback \in BOOLEAN

\* One registration of a command, of a component callback and of a modal
\* callback, the cache pass, and the router
NextRouter ==
    \/ interactions = <<>> /\ AddInteraction(<<"a">>, <<"global">>, "slash", TRUE)
    \/ component_callbacks = <<>> /\ AddComponentCallback(<<"x">>)
    \/ modal_callbacks = <<>> /\ AddModalCallback(<<"x">>)
    \/ \E c \in RemoteCommands : CacheInteraction(c[1], c[2])
    \/ \E env \in Envelopes, fails \in Steps \cup {"none"} : DispatchInteraction(env, fails)

SpecRouter == InitRouter /\ [][NextRouter]_vars

\* Client.__init__ with either setting of delete_unused_application_cmds, and
\* the service holding commands or none
InitSync ==
    /\ listeners = [n \in EventNames \cup RouterEvents |-> <<>>]
    /\ nextListener = 0
    /\ waits = [n \in EventNames \cup RouterEvents |-> <<>>]
    /\ futures = <<>>
    /\ tasks = <<>>
    /\ dispatched = <<>>
    /\ ready = FALSE
    /\ logged = <<>>
    /\ enforce_interaction_perms = FALSE
    /\ debug_scope = "none"
    /\ InitTables
    /\ InitLate
    /\ pre_run_callback = FALSE
    /\ post_run_callback = FALSE
    /\ prefixed_objects = DefaultObjects
    /\ remote_commands \in InitialRemotes
    /\ del_unused_app_cmd \in BOOLEAN

\* The registration of the commands a and b in the global scope and of the
\* subcommands a b and a c in the guild, the synchronisation of the scopes the client
\* chooses with the service answering "forbidden" or not, and the
\* synchronisation with the delete-unused flag given, of those scopes or of
\* the guild alone
NextSync ==
    \/ ~Has(interactions, "global") /\ AddInteraction(<<"a">>, <<"global">>, "slash", TRUE)
    \/ ~Has(interactions, "guild") /\ AddInteraction(<<"a", "b">>, <<"guild">>, "slash", TRUE)
    \/ /\ Has(interactions, "guild")
       /\ ~Has(interactions["guild"], <<"a", "c">>)
       /\ AddInteraction(<<"a", "c">>, <<"guild">>, "slash", TRUE)
    \/ /\ Has(interactions, "global")
       /\ ~Has(interactions["global"], <<"b">>)
       /\ AddInteraction(<<"b">>, <<"global">>, "slash", TRUE)
    \/ \E denied \in DenialCases :
           SynchroniseInteractions(<<"MISSING">>, "MISSING", denied)
    \/ \E scopes \in {<<"MISSING">>, <<"guild">>} :
           SynchroniseInteractions(scopes, "True", [scope \in Scopes |-> "none"])

SpecSync == InitSync /\ [][NextSync]_vars

\* Client.__init__ with or without the global pre-run and post-run callbacks,
\* and the PrefixedCommand objects with every setting the resolver reads
InitResolver ==
    /\ listeners = [n \in EventNames \cup RouterEvents |-> <<>>]
    /\ nextListener = 0
    /\ waits = [n \in EventNames \cup RouterEvents |-> <<>>]
    /\ futures = <<>>
    /\ tasks = <<>>
    /\ dispatched = <<>>
    /\ ready = FALSE
    /\ logged = <<>>
    /\ enforce_interaction_perms = FALSE
    /\ debug_scope = "none"
    /\ InitTables
    /\ InitLate
    /\ pre_run_callback \in BOOLEAN
    /\ post_run_callback \in BOOLEAN
    /\ prefixed_objects \in ObjectTables
    /\ remote_commands = NoRemoteCommands
    /\ del_unused_app_cmd = FALSE

\* The registration of one command with an alias, and the resolver on one
\* message whose prefix is one of "!" and "?"
NextResolver ==
    \/ prefixed_commands = <<>> /\ AddPrefixedCommand("x", <<"y">>)
    \/ /\ resolved = <<>>
       /\ \E message \in ResolverMessages, fails \in ResolverSteps \cup {"none"} :
              DispatchPrefixedCommands(message, <<<<"!">>, <<"?">>>>, fails)

SpecResolver == InitResolver /\ [][NextResolver]_vars

\* The registration of one command with an alias, and the resolver on one
\* message with every list of prefixes
NextPrefix ==
    \/ prefixed_commands = <<>> /\ AddPrefixedCommand("x", <<"y">>)
    \/ /\ resolved = <<>>
       /\ \E message \in PrefixMessages, prefixes \in PrefixLists :
              DispatchPrefixedCommands(message, prefixes, "none")

SpecPrefix == Init /\ [][NextPrefix]_vars

\* Context construction and the fetch_* aliases, with every outcome of the
\* cache layer's lookup
NextContext ==
    \/ \E interaction \in BOOLEAN, embedded \in BOOLEAN, lookup \in Lookups :
           GetContextCall(interaction, embedded, lookup)
    \/ \E lookup \in Lookups : fetch_guild(lookup)
    \/ \E lookup \in Lookups : fetch_channel(lookup)
    \/ \E lookup \in Lookups : fetch_user(lookup)
    \/ \E lookup \in Lookups : fetch_member(lookup)

SpecContext == Init /\ [][NextContext]_vars

\* Client.__init__ with or without auto_defer, and the command objects with
\* every setting of their own and of their extension
InitDefer ==
    /\ listeners = [n \in EventNames \cup RouterEvents |-> <<>>]
    /\ nextListener = 0
    /\ waits = [n \in EventNames \cup RouterEvents |-> <<>>]
    /\ futures = <<>>
    /\ tasks = <<>>
    /\ dispatched = <<>>
    /\ ready = FALSE
    /\ logged = <<>>
    /\ enforce_interaction_perms = FALSE
    /\ debug_scope = "none"
    /\ InitTables
    /\ prefixed_objects = DefaultObjects
    /\ remote_commands = NoRemoteCommands
    /\ del_unused_app_cmd = FALSE
    /\ pre_run_callback = FALSE
    /\ post_run_callback = FALSE
    /\ auto_defer \in [client : {"enabled", "disabled"}, command : AutoDeferSettings,
                       extension : {"none"} \cup AutoDeferSettings]
    /\ wraps = <<>>
    /\ req_lock = [locked |-> FALSE, waiters |-> <<>>]
    /\ event_names = <<>>
    /\ startup = FALSE
    /\ guild_event = FALSE
    /\ guild_cache = {}
    /\ handlers = <<>>

\* One registration of a command, the cache pass, and the router handed the
\* command envelopes
NextDefer ==
    \/ interactions = <<>> /\ AddInteraction(<<"a">>, <<"global">>, "slash", TRUE)
    \/ \E c \in RemoteCommands : CacheInteraction(c[1], c[2])
    \/ \E env \in {e \in Envelopes : e.type \in {"application_command", "autocomplete"}},
          fails \in {"defer", "command", "none"} :
           DispatchInteraction(env, fails)

SpecDefer == InitDefer /\ [][NextDefer]_vars

\* The registration of a global command and of a guild command, and the
\* refresh of the command cache with its wrap calls interleaved
NextRefresh ==
    \/ ~Has(interactions, "global") /\ AddInteraction(<<"a">>, <<"global">>, "slash", TRUE)
    \/ ~Has(interactions, "guild") /\ AddInteraction(<<"a", "b">>, <<"guild">>, "slash", TRUE)
    \/ \E warn_missing \in BOOLEAN : CacheInteractionsStart(warn_missing)
    \/ \E scope \in Scopes : WrapAcquire(scope)
    \/ \E scope \in Scopes : WrapWake(scope)
    \/ \E scope \in Scopes : WrapFetch(scope)
    \/ \E scope \in Scopes, forbidden \in BOOLEAN : WrapReturn(scope, forbidden)
    \/ CacheInteractionsFinish

SpecRefresh == InitSync /\ [][NextRefresh]_vars

\* wait_for with a predicate that accepts the event or with one that raises,
\* and dispatch
NextRaising ==
    \/ \E n \in ListenNames, checks \in {{"p"}, Raising} : WaitFor(n, checks)
    \/ \E n \in ListenNames : Dispatch(n, "p")

SpecRaising == Init /\ [][NextRaising]_vars

\* Listeners and processors created under every name, given or taken from
\* the function
NextNames ==
    \/ /\ event_names = <<>>
       /\ \E event_name \in Names \cup {MISSING}, is_coroutine \in BOOLEAN :
              ListenerCreate(event_name, <<"o", "n", "_", "x">>, is_coroutine)
    \/ /\ event_names = <<>>
       /\ \E event_name \in Names \cup {MISSING},
              coro_name \in {<<"_", "x">>, <<"o", "n", "_", "x">>} :
              AddEventProcessor(event_name, coro_name)

SpecNames == Init /\ [][NextNames]_vars

\* Registration in one scope of commands, groups and subcommands that share
\* base names and group names
NextTree ==
    \/ \E name \in ResolvedNames \cup {<<"a", "c">>, <<"b">>}, type \in CommandTypes :
           AddInteraction(name, <<"guild">>, type, TRUE)
    \/ \E name \in ResolvedNames : AddInteraction(name, <<"global", "guild">>, "slash", TRUE)

SpecTree == InitRegistration /\ [][NextTree]_vars

\* Client.__init__, with the registries keyed by the auto-moderation events
InitAutoMod ==
    /\ listeners = [n \in AutoModEventNames |-> <<>>]
    /\ nextListener = 0
    /\ waits = [n \in AutoModEventNames |-> <<>>]
    /\ futures = <<>>
    /\ tasks = <<>>
    /\ dispatched = <<>>
    /\ ready = FALSE
    /\ logged = <<>>
    /\ enforce_interaction_perms = FALSE
    /\ debug_scope = "none"
    /\ InitTables
    /\ InitLate
    /\ prefixed_objects = DefaultObjects
    /\ remote_commands = NoRemoteCommands
    /\ del_unused_app_cmd = FALSE
    /\ pre_run_callback = FALSE
    /\ post_run_callback = FALSE

\* Listeners of the auto-moderation events, and the four processors
NextAutoMod ==
    \/ \E n \in AutoModEventNames : AddListener(n, FALSE, FALSE, FALSE)
    \/ raw_auto_moderation_action_execution
    \/ raw_auto_moderation_rule_create
    \/ raw_auto_moderation_rule_delete
    \/ raw_auto_moderation_rule_update

SpecAutoMod == InitAutoMod /\ [][NextAutoMod]_vars

\* Client.__init__, with the registries keyed by the events of the
\* websocket-ready handler
InitReady ==
    /\ listeners = [n \in ReadyEventNames |-> <<>>]
    /\ nextListener = 0
    /\ waits = [n \in ReadyEventNames |-> <<>>]
    /\ futures = <<>>
    /\ tasks = <<>>
    /\ dispatched = <<>>
    /\ ready = FALSE
    /\ logged = <<>>
    /\ enforce_interaction_perms = FALSE
    /\ debug_scope = "none"
    /\ InitTables
    /\ InitLate
    /\ prefixed_objects = DefaultObjects
    /\ remote_commands \in InitialRemotes
    /\ del_unused_app_cmd = FALSE
    /\ pre_run_callback = FALSE
    /\ post_run_callback = FALSE

\* The steps of the executions of the websocket-ready handler
HandlerStep ==
    \/ \E h \in 1..MaxHandlers : StartupWait(h)
    \/ \E h \in 1..MaxHandlers : StartupTimeout(h)
    \/ \E h \in 1..MaxHandlers : InitInteractionsDone(h)
    \/ \E h \in 1..MaxHandlers : ReconnectWait(h)
    \/ \E h \in 1..MaxHandlers : ReconnectTimeout(h)

\* Websocket-ready events with any set of expected guilds, guild-create
\* events, and the steps of the handler
NextReady ==
    \/ \E expected_guilds \in SUBSET Guilds : WebsocketReady(expected_guilds)
    \/ \E g \in Guilds : GuildCreate(g)
    \/ \E h \in 1..MaxHandlers : StartupWait(h)
    \/ \E h \in 1..MaxHandlers : StartupTimeout(h)
    \/ \E h \in 1..MaxHandlers : InitInteractionsDone(h)
    \/ \E h \in 1..MaxHandlers : ReconnectWait(h)
    \/ \E h \in 1..MaxHandlers : ReconnectTimeout(h)

SpecReady == InitReady /\ [][NextReady]_vars

\* The event loop runs every handler that can take a step; the gateway owes
\* no guild-create event
SpecReadyFair == SpecReady /\ WF_vars(HandlerStep)

---------------------------------------------------------------------------
(* Properties of dispatch and of the registries *)

TasksOf(d) == {t \in 1..Len(tasks) : tasks[t].event = d}

ErrorsOf(d) == {i \in 1..Len(dispatched) : IsError(dispatched[i]) /\ dispatched[i].source = d}

InRegistry(id) == \E n \in EventNames : \E i \in 1..Len(waits[n]) : waits[n][i].id = id

Increasing(s) == \A i, j \in 1..Len(s) : i < j => s[i] < s[j]

\* The listeners of the tasks created for dispatch d, in creation order
StartedBy(d) ==
    LET OfD(t) == t.event = d
        ts == SelectSeq(tasks, OfD)
    IN [i \in 1..Len(ts) |-> ts[i].listener]

\* C1 (state part): a dispatch of an event other than Error has one execution
\* unit per listener registered for the event, and the Error events whose
\* source it is are exactly one per unit whose callback raised.
C1_OneErrorPerFailure ==
    \A d \in 1..Len(dispatched) :
        ~IsError(dispatched[d]) =>
            /\ Cardinality(TasksOf(d)) = Len(dispatched[d].regs)
            /\ \A i \in 1..Len(dispatched[d].regs) :
                   Cardinality({t \in TasksOf(d) : tasks[t].listener = dispatched[d].regs[i]}) = 1
            /\ Cardinality(ErrorsOf(d)) = Cardinality({t \in TasksOf(d) : tasks[t].pc = "raised"})
            /\ \A t \in TasksOf(d) :
                   Cardinality({i \in ErrorsOf(d) : dispatched[i].error = t})
                       = IF tasks[t].pc = "raised" THEN 1 ELSE 0

\* C1 (step part): a callback that raises changes no other execution unit.
C1_RaiseLeavesOthers ==
    \A t \in 1..Len(tasks) :
        (tasks[t].pc = "callback" /\ tasks'[t].pc = "raised") =>
            \A u \in 1..Len(tasks) : u # t => tasks'[u] = tasks[u]

\* C1: Isolation. For every event other than Error, one dispatch gives every
\* registered listener its own execution unit, a raising callback leaves the
\* other units as they are, and the Error events dispatched for it are one per
\* listener whose callback raised.
C1_Isolation == [](C1_OneErrorPerFailure) /\ [][C1_RaiseLeavesOthers]_vars

\* Two listeners of one dispatch: the first raised, the second still ran to the end.
C1_Witness ==
    \E d \in 1..Len(dispatched) :
        /\ ~IsError(dispatched[d])
        /\ Len(dispatched[d].regs) = 2
        /\ \E t, u \in TasksOf(d) :
              /\ t < u
              /\ tasks[t].pc = "raised"
              /\ tasks[u].pc = "done"
        /\ Cardinality(ErrorsOf(d)) = 1

\* C2: Order. Every dispatch starts the execution units of the event's
\* listeners in the order of their registration numbers, one per listener in
\* the list, and every listener list is kept in registration order, so
\* repeated dispatches start them in the same order.
C2_Order ==
    /\ \A d \in 1..Len(dispatched) :
          /\ StartedBy(d) = dispatched[d].regs
          /\ Increasing(StartedBy(d))
    /\ \A n \in EventNames :
          /\ Increasing(Ids(listeners[n]))
          /\ \A i \in 1..Len(listeners[n]) : listeners[n][i].event = n

\* Two dispatches of one event with the same two listeners
C2_Witness ==
    \E d1, d2 \in 1..Len(dispatched) :
        /\ d1 < d2
        /\ dispatched[d1].name = dispatched[d2].name
        /\ Len(StartedBy(d1)) = 2
        /\ StartedBy(d2) = StartedBy(d1)

Matches(f, e) == e.name = f.name /\ e.payload \in f.checks

\* C3 (state part): a resolved waiter holds the first event dispatched after
\* its creation that has its name and satisfies its predicate, and is no longer
\* in the registry; a pending waiter has seen no such event.
C3_FirstMatch ==
    \A id \in 1..Len(futures) :
        LET f == futures[id]
        IN /\ f.state = "result" =>
                 /\ f.event \in (f.created + 1)..Len(dispatched)
                 /\ Matches(f, dispatched[f.event])
                 /\ \A j \in (f.created + 1)..(f.event - 1) : ~Matches(f, dispatched[j])
                 /\ ~InRegistry(id)
           /\ f.state = "pending" =>
                 /\ InRegistry(id)
                 /\ \A j \in (f.created + 1)..Len(dispatched) : ~Matches(f, dispatched[j])

\* C3 (step part): the result of a resolved waiter never changes.
C3_ResultKept ==
    \A id \in 1..Len(futures) :
        futures[id].state = "result" => futures'[id] = futures[id]

\* C3: Waiter single-fire. A waiter is resolved by the first dispatched event
\* of its name for which its predicate is true, with that event as result, is
\* removed from the registry in that dispatch, and is never resolved again.
C3_SingleFire == [](C3_FirstMatch) /\ [][C3_ResultKept]_vars

\* A waiter resolved by one event, and a later event that also matched it
C3_Witness ==
    \E id \in 1..Len(futures) :
        /\ futures[id].state = "result"
        /\ \E j \in 1..Len(dispatched) :
              /\ j > futures[id].event
              /\ Matches(futures[id], dispatched[j])

IsPending(futs, w) == futs[w.id].state = "pending"

\* The pending waiters of ws the event does not satisfy, in their order
PendingUnmatched(ws, futs, e) ==
    LET Keep(w) == IsPending(futs, w) /\ e.payload \notin w.checks
    IN SelectSeq(ws, Keep)

PendingIn(ws, futs) ==
    LET Keep(w) == IsPending(futs, w)
    IN SelectSeq(ws, Keep)

\* C4: Waiter independence. In one dispatch of an event named E exactly the
\* pending waiters of E whose predicate is true of the event are resolved (with
\* that event) and removed; the pending waiters of E whose predicate is false
\* stay, pending and in their order, and the lists of the other names and all
\* other futures are unchanged.
C4_Independence ==
    [][Len(dispatched') = Len(dispatched) + 1 =>
          LET k == Len(dispatched')
              e == dispatched'[k]
          IN /\ \A n \in EventNames \ {e.name} : waits'[n] = waits[n]
             /\ PendingIn(waits'[e.name], futures') = PendingUnmatched(waits[e.name], futures, e)
             /\ \A i \in 1..Len(waits'[e.name]) :
                    \E j \in 1..Len(waits[e.name]) : waits'[e.name][i] = waits[e.name][j]
             /\ \A id \in 1..Len(futures) :
                    IF /\ futures[id].state = "pending"
                       /\ Matches(futures[id], e)
                    THEN /\ futures'[id].state = "result"
                         /\ futures'[id].event = k
                         /\ ~InRegistry(id)'
                    ELSE futures'[id] = futures[id]
    ]_vars

\* One dispatch resolved the second waiter of an event and left the first one,
\* whose predicate was false, pending at the head of the list
C4_Witness ==
    \E n \in EventNames :
        /\ Len(waits[n]) = 1
        /\ waits[n][1].id = 1
        /\ futures[1].state = "pending"
        /\ Len(futures) >= 2
        /\ futures[2].state = "result"
        /\ futures[2].name = n
        /\ futures[2].event > futures[1].created

\* C5: Waiter timeout. A waiter whose timeout has elapsed is no longer in the
\* waiter registry.
C5_TimedOutRemoved ==
    \A id \in 1..Len(futures) : futures[id].state = "cancelled" => ~InRegistry(id)

HasDefault(lst) == \E i \in 1..Len(lst) : lst[i].is_default_listener

HasDisabler(lst) == \E i \in 1..Len(lst) : lst[i].disable_default_listeners

NonDefaults(lst) == SelectSeq(lst, IsNotDefault)

\* C6 (state part): no listener list holds a default listener together with a
\* listener that disables the defaults.
C6_NoDefaultWithDisabler ==
    \A n \in EventNames : ~(HasDefault(listeners[n]) /\ HasDisabler(listeners[n]))

\* C6 (step part): add_listener keeps every non-default listener of every
\* event, in order, adding at most the new one at the end.
C6_NonDefaultsKept ==
    nextListener' = nextListener + 1 =>
        \A n \in EventNames :
            \/ NonDefaults(listeners'[n]) = NonDefaults(listeners[n])
            \/ /\ Len(NonDefaults(listeners'[n])) = Len(NonDefaults(listeners[n])) + 1
               /\ SubSeq(NonDefaults(listeners'[n]), 1, Len(NonDefaults(listeners[n])))
                      = NonDefaults(listeners[n])
               /\ NonDefaults(listeners'[n])[Len(NonDefaults(listeners'[n]))].id = nextListener'

\* C6: Default suppression. After any sequence of add_listener calls no list
\* holds both a default listener and a listener that disables the defaults,
\* and filtering the defaults keeps the non-default listeners in order.
C6_DefaultSuppression == [](C6_NoDefaultWithDisabler) /\ [][C6_NonDefaultsKept]_vars

\* A default listener was registered and seen by a dispatch, then filtered
\* out by the registration of a listener that disables the defaults
C6_Witness ==
    \E n \in EventNames :
        /\ nextListener = 2
        /\ Len(dispatched) = 1
        /\ dispatched[1].name = n
        /\ dispatched[1].regs = <<1>>
        /\ Ids(listeners[n]) = <<2>>
        /\ listeners[n][1].disable_default_listeners

IsCall(op) == Len(commands') = Len(commands) + 1 /\ lastCall'.op = op

\* The scopes of cmd in which its resolved name is registered
ScopesHolding(cmd) ==
    {i \in 1..Len(cmd.scopes) :
        /\ Has(interactions, cmd.scopes[i])
        /\ Has(interactions[cmd.scopes[i]], cmd.resolved_name)}

\* C7: Duplicate rejection. add_interaction of a command (with a callback)
\* whose resolved name is registered in one of its scopes raises the
\* registration error, and that scope still maps the name to the command
\* registered before.
C7_DuplicateRejected ==
    [][IsCall("add_interaction") =>
          LET cmd == commands'[Len(commands')]
          IN (cmd.callback /\ ScopesHolding(cmd) # {}) =>
                 /\ lastCall'.outcome = "ValueError"
                 /\ \A i \in ScopesHolding(cmd) :
                        interactions'[cmd.scopes[i]][cmd.resolved_name]
                            = interactions[cmd.scopes[i]][cmd.resolved_name]
    ]_vars

\* C8: Atomic structured-command registration. An add_interaction call that
\* raises the duplicate-command error leaves the flat per-scope map, the
\* command tree and the command's check list as they were before the call.
C8_AtomicRegistration ==
    [][(IsCall("add_interaction") /\ lastCall'.outcome = "ValueError") =>
          /\ interactions' = interactions
          /\ interaction_tree' = interaction_tree
          /\ cmdChecks'[Len(commands')] = 0
    ]_vars

\* The name or an alias of cmd is a key of the prefixed-command table
KeyTaken(cmd) ==
    \/ Has(prefixed_commands, cmd.name)
    \/ \E i \in 1..Len(cmd.aliases) : Has(prefixed_commands, cmd.aliases[i])

\* C9: Prefixed-command key uniqueness. add_prefixed_command raises the
\* registration error whenever the command's name or one of its aliases is a
\* key of the table, and no step rebinds or unbinds a key of the table.
C9_KeyUniqueness ==
    [][/\ IsCall("add_prefixed_command") =>
              (KeyTaken(commands'[Len(commands')]) => lastCall'.outcome = "ValueError")
       /\ \A k \in DOMAIN prefixed_commands :
              /\ Has(prefixed_commands', k)
              /\ prefixed_commands'[k] = prefixed_commands[k]
    ]_vars

\* A second command was refused for an alias that the first command holds
C9_Witness ==
    /\ Len(commands) = 2
    /\ lastCall = [op |-> "add_prefixed_command", outcome |-> "ValueError"]
    /\ ~Has(prefixed_commands, commands[2].name) \/ prefixed_commands[commands[2].name] = 2
    /\ \E i \in 1..Len(commands[2].aliases) :
           /\ Has(prefixed_commands, commands[2].aliases[i])
           /\ prefixed_commands[commands[2].aliases[i]] = 1

\* C10: Atomic alias / callback registration. A call of add_prefixed_command,
\* add_component_callback or add_modal_callback that raises the registration
\* error leaves its table as it was before the call.
C10_AtomicTables ==
    [][(/\ \/ IsCall("add_prefixed_command")
           \/ IsCall("add_component_callback")
           \/ IsCall("add_modal_callback")
        /\ lastCall'.outcome = "ValueError") =>
          /\ prefixed_commands' = prefixed_commands
          /\ component_callbacks' = component_callbacks
          /\ modal_callbacks' = modal_callbacks
    ]_vars

\* C11: dispatch is non-blocking for handlers and synchronous for waiters. In
\* the step of a dispatch call one execution unit per listener of the event is
\* created and none of them has executed a step when the call returns, and
\* every pending waiter of the event whose predicate the event satisfies is
\* resolved with the event and out of the registry when the call returns.
C11_DispatchReturns ==
    [][Len(dispatched') = Len(dispatched) + 1 =>
          LET k == Len(dispatched')
              e == dispatched'[k]
          IN /\ Len(tasks') = Len(tasks) + Len(e.regs)
             /\ \A t \in (Len(tasks) + 1)..Len(tasks') :
                    /\ tasks'[t].event = k
                    /\ tasks'[t].pc = "created"
             /\ \A id \in 1..Len(futures) :
                    (futures[id].state = "pending" /\ Matches(futures[id], e)) =>
                        /\ futures'[id].state = "result"
                        /\ futures'[id].event = k
                        /\ ~InRegistry(id)'
    ]_vars

\* The last dispatch found a listener and a waiter: the waiter is resolved with
\* it and removed while the execution unit of the listener has not started
C11_Witness ==
    /\ dispatched # <<>>
    /\ LET k == Len(dispatched)
       IN /\ TasksOf(k) # {}
          /\ \A t \in TasksOf(k) : tasks[t].pc = "created"
          /\ \E id \in 1..Len(futures) :
                 /\ futures[id].state = "result"
                 /\ futures[id].event = k
                 /\ ~InRegistry(id)

\* C12 (step part): a raising callback of a listener of an Error event calls
\* the fallback logger and dispatches nothing; a raising callback of a listener
\* of any other event dispatches one Error event whose source is the original
\* event and whose error is the exception, and does not call the logger.
C12_RaiseStep ==
    \A t \in 1..Len(tasks) :
        (tasks[t].pc = "callback" /\ tasks'[t].pc = "raised") =>
            LET e == dispatched[tasks[t].event]
            IN IF IsError(e)
               THEN /\ dispatched' = dispatched
                    /\ logged' = Append(logged, tasks[t].event)
               ELSE /\ logged' = logged
                    /\ Len(dispatched') = Len(dispatched) + 1
                    /\ SubSeq(dispatched', 1, Len(dispatched)) = dispatched
                    /\ LET err == dispatched'[Len(dispatched')]
                       IN /\ IsError(err)
                          /\ err.source = tasks[t].event
                          /\ err.error = t

\* C12 (state part): the source of an Error event dispatched for a failure is
\* never an Error event, so a chain of failures ends after one Error event;
\* every call of the fallback logger is for an Error event.
C12_FiniteChain ==
    /\ \A i \in 1..Len(dispatched) :
          (IsError(dispatched[i]) /\ dispatched[i].source # 0) =>
              /\ dispatched[i].source < i
              /\ ~IsError(dispatched[dispatched[i].source])
    /\ \A i \in 1..Len(logged) : IsError(dispatched[logged[i]])

\* C12: No infinite error loop. The failure of a listener of an Error event
\* goes to the fallback logger and dispatches no Error event; the failure of a
\* listener of any other event dispatches exactly one Error event carrying the
\* original event and the exception; so one failing handler causes a chain of
\* at most one further event.
C12_NoErrorLoop == [](C12_FiniteChain) /\ [][C12_RaiseStep]_vars

\* A listener failed, and the listener of the Error event dispatched for it
\* failed too: its failure is in the log of the fallback logger
C12_Witness ==
    \E t \in 1..Len(tasks) :
        /\ tasks[t].pc = "raised"
        /\ IsError(dispatched[tasks[t].event])
        /\ dispatched[tasks[t].event].source # 0
        /\ logged = <<tasks[t].event>>
        /\ ErrorsOf(tasks[t].event) = {}

\* C13: Readiness gating. For an event that is neither an Error nor a raw
\* gateway event, the callback of a listener with delay_until_ready never
\* starts while the readiness signal is unset; for an Error or raw gateway
\* event the execution unit goes from its start into the callback without
\* waiting, whatever the readiness signal is.
C13_ReadinessGating ==
    [][\A t \in 1..Len(tasks) :
          LET e == dispatched[tasks[t].event]
          IN /\ (/\ ~IsErrorOrRaw(e)
                 /\ tasks[t].delay
                 /\ tasks[t].pc # "callback"
                 /\ tasks'[t].pc = "callback") => ready
             /\ (/\ IsErrorOrRaw(e)
                 /\ tasks[t].pc = "created"
                 /\ tasks'[t].pc \notin {"created", "cancelled"}) => tasks'[t].pc = "callback"
    ]_vars

\* C14: Cancellation is silent. The step that cancels the execution unit of a
\* listener, whether the unit has not started, is suspended on readiness or is
\* inside its callback, and whatever the event is, dispatches no event, does
\* not call the fallback logger and leaves the other units as they are.
C14_SilentCancel ==
    [][\A t \in 1..Len(tasks) :
          (tasks[t].pc \in Live /\ tasks'[t].pc = "cancelled") =>
              /\ dispatched' = dispatched
              /\ logged' = logged
              /\ Len(tasks') = Len(tasks)
              /\ \A u \in 1..Len(tasks) : u # t => tasks'[u] = tasks[u]
    ]_vars

\* Cancelled units of an Error event and of another event whose listener waits
\* for readiness, with nothing but the two outside dispatches in the log
C14_Witness ==
    /\ \E t, u \in 1..Len(tasks) :
          /\ tasks[t].pc = "cancelled"
          /\ IsError(dispatched[tasks[t].event])
          /\ tasks[u].pc = "cancelled"
          /\ ~IsErrorOrRaw(dispatched[tasks[u].event])
          /\ tasks[u].delay
    /\ \A i \in 1..Len(dispatched) : dispatched[i].source = 0
    /\ logged = <<>>

---------------------------------------------------------------------------
(* Properties of the interaction router *)

\* The events, and the awaited calls, of what the router did, in order
EventsOf(trace) == SelectSeq(trace, IsRouterEvent)

StepsOf(trace) == SelectSeq(trace, IsStep)

\* The names of the events at positions from + 1 .. Len(log) of a dispatch log
NamesFrom(log, from) == [i \in 1..(Len(log) - from) |-> log[from + i].name]

\* C15: Unknown interaction id. A command-invocation or autocomplete envelope
\* whose command id has no entry in the id-to-scope cache is dropped with a log
\* entry: the router makes no call (defer, hook, command body, autocomplete
\* callback), dispatches no event, creates no execution unit and returns.
C15_UnknownIdDropped ==
    [][Len(routed') = Len(routed) + 1 =>
          LET call == routed'[Len(routed')]
          IN (/\ call.env.type \in {"application_command", "autocomplete"}
              /\ ~Has(interaction_scopes, call.env.id)) =>
                 /\ call.trace = <<"log_error">>
                 /\ call.outcome = "returned"
                 /\ dispatched' = dispatched
                 /\ tasks' = tasks
    ]_vars

\* A command invocation and nothing else was routed, its id is not in the
\* cache although a command is registered, and nothing was dispatched
C15_Witness ==
    /\ Has(interactions, "global")
    /\ Len(routed) = 1
    /\ routed[1].env.type = "application_command"
    /\ ~Has(interaction_scopes, routed[1].env.id)
    /\ routed[1].trace = <<"log_error">>
    /\ dispatched = <<>>

IsPrefix(s, t) == Len(s) <= Len(t) /\ SubSeq(t, 1, Len(s)) = s

C17_AutocompleteBranch ==
    [][Len(routed') = Len(routed) + 1 =>
          LET call == routed'[Len(routed')]
          IN (/\ call.env.focussed_option
              /\ Has(interaction_scopes, call.env.id)) =>
                 /\ StepsOf(call.trace) = <<"autocomplete">>
                 /\ call.trace = <<"autocomplete">> \o EventsOf(call.trace)
                 /\ EventsOf(call.trace) =
                        IF call.fails = "autocomplete"
                        THEN <<"autocomplete_error", "autocomplete_completion">>
                        ELSE <<"autocomplete_completion">>
                 /\ NamesFrom(dispatched', Len(dispatched)) = EventsOf(call.trace)
    ]_vars

\* The autocomplete callback raised: AutocompleteError and then
\* AutocompleteCompletion are all that was dispatched
C17_Witness ==
    \E i \in 1..Len(routed) :
        /\ routed[i].env.type = "autocomplete"
        /\ routed[i].env.focussed_option
        /\ routed[i].fails = "autocomplete"
        /\ NamesFrom(dispatched, 0) = <<"autocomplete_error", "autocomplete_completion">>

\* What a callback with hooks leaves in the trace: the calls pre-run hook (when
\* set), callback, post-run hook (when set) up to the first that raises, then
\* the error event if one raised, then the events of after
CallbackPattern(fails, error, after) ==
    LET order == (IF pre_run_callback THEN <<"pre_run">> ELSE <<>>)
                     \o <<"callback">>
                     \o (IF post_run_callback THEN <<"post_run">> ELSE <<>>)
    IN {order \o after}
           \cup {SubSeq(order, 1, n) \o <<error>> \o after :
                     n \in {m \in 1..Len(order) : order[m] = fails}}

\* The event of the component type: ButtonPressed, Select, or none
Specialized(env) ==
    IF env.component_type = "button" THEN <<"button_pressed">>
    ELSE IF env.component_type = "string_select" THEN <<"select">>
    ELSE <<>>

Count(s, x) == Cardinality({i \in 1..Len(s) : s[i] = x})

C20_UnrecognizedType ==
    [][Len(routed') = Len(routed) + 1 =>
          LET call == routed'[Len(routed')]
          IN call.env.type \in InteractionTypes \ {"application_command", "autocomplete",
                                                   "message_component", "modal_response"} =>
                 /\ call.outcome = "NotImplementedError"
                 /\ call.trace = <<>>
                 /\ dispatched' = dispatched
    ]_vars

---------------------------------------------------------------------------
(* Properties of the prefix command resolver *)

\* The calls of the resolver that got as far as the prefix loop: commands
\* were registered, and the message is a user's, with content and with its
\* message object and channel at hand
PastFilter(r) ==
    /\ r.table # <<>>
    /\ r.message.content # <<>>
    /\ ~r.message.bot
    /\ r.message.available
    /\ r.message.channel \in {"present", "found"}

\* the positions of the prefixes the content starts with
MatchingPrefixes(prefixes, content) ==
    {i \in 1..Len(prefixes) : StartsWith(content, prefixes[i])}

Min(S) == CHOOSE i \in S : \A j \in S : i <= j

\* a stage of the lifecycle was entered
Invoked(trace) ==
    \E i \in 1..Len(trace) : trace[i] \in {"pre_run", "command", "post_run"}

\* C21: for every list of literal prefixes and every content, the prefix used
\* is the first prefix of the list the content starts with, compared
\* character by character; when there is one the resolution proceeds with it,
\* so that a content made of that prefix and the name of a registered command
\* invokes the command; when there is none no prefix is used, no command is
\* invoked and no event is dispatched.
C21_PrefixSelection ==
    \A n \in 1..Len(resolved) :
        LET r == resolved[n]
            matching == MatchingPrefixes(r.prefixes, r.message.content)
            first == r.prefixes[Min(matching)]
        IN (PastFilter(r) /\ \A i \in 1..Len(r.prefixes) : r.prefixes[i] # MENTION_PREFIX)
               => IF matching # {}
                  THEN /\ r.result.prefix_used = [matched |-> TRUE, text |-> first]
                       /\ RemovePrefix(r.message.content, first) = <<"x">>
                              => /\ r.result.command = <<"x">>
                                 /\ Invoked(r.result.trace)
                  ELSE /\ ~r.result.prefix_used.matched
                       /\ r.result.command = <<>>
                       /\ r.result.trace = <<>>
                       /\ dispatched = <<>>

\* a mention of the user with the given id, plain or in the nickname form,
\* followed by one whitespace character
MentionsOf(id) ==
    {open \o id \o <<">", w>> :
         open \in {<<"<", "@">>, <<"<", "@", "!">>}, w \in Whitespace}

\* C22: with the mention sentinel as the only prefix, a prefix is used if and
\* only if the content starts with a mention of the bot's own id, plain or in
\* the nickname form, followed by whitespace; the prefix used is then that
\* mention text, and a content starting with a mention of another id uses none.
C22_MentionPrefix ==
    \A n \in 1..Len(resolved) :
        LET r == resolved[n]
            own == {m \in MentionsOf(BotId) : StartsWith(r.message.content, m)}
        IN (PastFilter(r) /\ r.prefixes = <<MENTION_PREFIX>>)
               => IF own # {}
                  THEN r.result.prefix_used.matched /\ r.result.prefix_used.text \in own
                  ELSE ~r.result.prefix_used.matched

\* the whitespace-delimited words of s, in order
RECURSIVE Split(_)
Split(s) ==
    LET t == LStrip(s)
    IN IF t = <<>> THEN <<>>
       ELSE <<FirstWord(t)>> \o Split(SubSeq(t, WordEnd(t) + 1, Len(t)))

\* the calls in which a command was resolved and its lifecycle entered
Invocations == {n \in 1..Len(resolved) : Invoked(resolved[n].result.trace)}

\* C23: when a command is resolved, the invoke target is the content without
\* the prefix and without the unconsumed argument text, trimmed: it begins the
\* content after the prefix and its words are exactly the matched command
\* words; the argument text is the trimmed text after the last matched word,
\* and ends the content. Prefixes ("!", "?") and content "!x xy y", with x a
\* command without a subcommand xy, give invoke target "x" and arguments "xy y".
C23_InvokeTarget ==
    \A n \in Invocations :
        LET r == resolved[n]
            body == RemovePrefix(r.message.content, r.result.prefix_used.text)
            words == Split(body)
            k == r.result.descents
        IN /\ k \in 1..Len(words)
           /\ StartsWith(body, r.result.invoke_target)
           /\ Strip(r.result.invoke_target) = r.result.invoke_target
           /\ Split(r.result.invoke_target) = SubSeq(words, 1, k)
           /\ EndsWith(body, r.result.content_parameters)
           /\ Strip(r.result.content_parameters) = r.result.content_parameters
           /\ Split(r.result.content_parameters) = SubSeq(words, k + 1, Len(words))
           /\ r.message.content = <<"!", "x", " ", "x", "y", " ", "y">>
                  => /\ r.result.invoke_target = <<"x">>
                     /\ r.result.content_parameters = <<"x", "y", " ", "y">>

\* the calls in which the permission check of a command raised during the walk
FailedChecks ==
    {n \in 1..Len(resolved) :
         \E k \in 1..Len(CanRunSteps) : resolved[n].fails = CanRunSteps[k]}

\* the depth of the command whose check raised
FailedDepth(r) == CHOOSE k \in 1..Len(CanRunSteps) : r.fails = CanRunSteps[k]

\* What every failed hierarchical check has in common: the resolution stops at
\* the command whose check raised, however many words follow, no stage of the
\* lifecycle runs and no CommandCompletion is dispatched
StopsAtFailedCheck(r) ==
    /\ r.result.descents = FailedDepth(r)
    /\ Len(r.result.command) = FailedDepth(r)
    /\ ~Invoked(r.result.trace)
    /\ Count(r.result.trace, "command_completion") = 0
    /\ Count(NamesFrom(dispatched, 0), "command_completion") = 0

\* C24 as claimed: a failed hierarchical check stops the resolution and
\* dispatches exactly one CommandError, whatever handlers the command has.
C24_HierarchicalCheck ==
    \A n \in FailedChecks :
        /\ StopsAtFailedCheck(resolved[n])
        /\ EventsOf(resolved[n].result.trace) = <<"command_error">>
        /\ NamesFrom(dispatched, 0) = <<"command_error">>

\* C24 as amended: a failed hierarchical check stops the resolution; the
\* exception goes to the command's error_callback if it has one, else to the
\* extension_error of its extension if that exists, and only when there is
\* neither is exactly one CommandError dispatched; nothing else is dispatched.
C24_HierarchicalCheckHandled ==
    \A n \in FailedChecks :
        LET r == resolved[n]
            object == prefixed_objects[r.result.command]
            last == r.result.trace[Len(r.result.trace)]
        IN /\ StopsAtFailedCheck(r)
           /\ object.hierarchical_checking
           /\ last = IF object.error_callback THEN "error_callback"
                     ELSE IF object.extension_error THEN "extension_error"
                     ELSE "command_error"
           /\ EventsOf(r.result.trace) =
                  IF object.error_callback \/ object.extension_error
                  THEN <<>> ELSE <<"command_error">>
           /\ NamesFrom(dispatched, 0) = EventsOf(r.result.trace)

\* The check of x raised on "!x y" while x has both handlers, its subcommand y
\* is enabled and both hooks are set: only the error_callback was called
C24_Witness ==
    \E n \in FailedChecks :
        /\ resolved[n].message.content = <<"!", "x", " ", "y">>
        /\ prefixed_objects[<<"x">>].error_callback
        /\ prefixed_objects[<<"x">>].extension_error
        /\ prefixed_objects[<<"x", "y">>].enabled
        /\ pre_run_callback /\ post_run_callback
        /\ resolved[n].result.trace = <<"can_run_1", "error_callback">>
        /\ resolved[n].result.command = <<"x">>
        /\ dispatched = <<>>

IsStage(x) == x \in {"pre_run", "command", "post_run"}

IsCheck(x) == \E k \in 1..Len(CanRunSteps) : x = CanRunSteps[k]

\* C25: once a prefixed command is resolved, the pre-run hook (when set), the
\* command body and the post-run hook (when set) run in that order, after the
\* checks of the walk; a stage that raises is the last stage to run and is
\* followed by exactly one CommandError; exactly one CommandCompletion is
\* dispatched, last of all, and nothing else is dispatched.
C25_PrefixedLifecycle ==
    \A n \in Invocations :
        LET r == resolved[n]
            trace == r.result.trace
            stages == SelectSeq(trace, IsStage)
            all == (IF pre_run_callback THEN <<"pre_run">> ELSE <<>>)
                       \o <<"command">>
                       \o (IF post_run_callback THEN <<"post_run">> ELSE <<>>)
            events == IF IsStage(r.fails) THEN <<"command_error", "command_completion">>
                      ELSE <<"command_completion">>
        IN /\ IsPrefix(stages, all)
           /\ IF IsStage(r.fails)
              THEN stages # <<>> /\ stages[Len(stages)] = r.fails
              ELSE stages = all
           /\ trace = SelectSeq(trace, IsCheck) \o stages \o events
           /\ NamesFrom(dispatched, 0) = events

\* With both hooks set the command body raised: the pre-run hook and the body
\* ran, the post-run hook did not, CommandError then CommandCompletion
C25_Witness ==
    \E n \in Invocations :
        /\ resolved[n].fails = "command"
        /\ resolved[n].result.trace =
               <<"pre_run", "command", "command_error", "command_completion">>
        /\ NamesFrom(dispatched, 0) = <<"command_error", "command_completion">>

\* the calls that got past the prefix loop and in which no permission check
\* raised
Walks ==
    {n \in 1..Len(resolved) :
         /\ PastFilter(resolved[n])
         /\ resolved[n].result.prefix_used.matched
         /\ resolved[n].result.prefix_used.text # <<>>
         /\ ~IsCheck(resolved[n].fails)}

\* the command named by word below the command at path: in the top-level
\* table of names and aliases for the client (path <<>>), among the
\* subcommands otherwise; <<>> when there is none
Named(table, path, word) ==
    IF Len(word) # 1 THEN <<>>
    ELSE IF path = <<>>
    THEN IF Has(table, word[1]) THEN <<commands[table[word[1]]].name>> ELSE <<>>
    ELSE IF Append(path, word[1]) \in ObjectPaths THEN Append(path, word[1]) ELSE <<>>

\* the command reached from path by descending word by word while the next
\* word names an enabled command
RECURSIVE Descend(_, _, _)
Descend(table, path, words) ==
    IF words = <<>> THEN path
    ELSE LET next == Named(table, path, Head(words))
         IN IF next # <<>> /\ prefixed_objects[next].enabled
            THEN Descend(table, next, Tail(words))
            ELSE path

\* C29: after the prefix is stripped the resolver looks up the next word in
\* the top-level table and then in the subcommands of the current command,
\* descending while the word names an enabled command and consuming exactly
\* that word and the whitespace after it: the command resolved is the one the
\* words of the content lead to, the descents are at most the words, what is
\* left is the text after the matched words, and when no command is resolved
\* nothing runs and nothing is dispatched.
C29_SubcommandWalk ==
    \A n \in Walks :
        LET r == resolved[n]
            words == Split(RemovePrefix(r.message.content, r.result.prefix_used.text))
            k == r.result.descents
        IN /\ k <= Len(words)
           /\ r.result.command = Descend(r.table, <<>>, words)
           /\ Len(r.result.command) = k
           /\ Split(r.result.content_parameters) = SubSeq(words, k + 1, Len(words))
           /\ IF r.result.command = <<>>
              THEN r.result.trace = <<>> /\ dispatched = <<>>
              ELSE Invoked(r.result.trace)

---------------------------------------------------------------------------
(* Properties of the synchronisation *)

\* the requests of a call that overwrote a scope or tried to
Overwrites(call) ==
    {i \in 1..Len(call.calls) : call.calls[i].overwrite # "none"}

\* the call fetched every scope it went through and raised nothing
Completed(call) ==
    /\ call.outcome = "None"
    /\ \A i \in 1..Len(call.calls) : call.calls[i].fetched

\* C26: when a synchronise_interactions call has completed successfully and
\* the next call is made for the same scopes and the same setting of the
\* delete-unused flag, with the same local commands and the remote state the
\* first call left, the second call issues no overwrite call, for either
\* setting of the flag.
C26_SyncIdempotence ==
    [][(/\ synced # <<>>
        /\ synced' # synced
        /\ Completed(synced[1])
        /\ synced'[1].scopes = synced[1].scopes
        /\ synced'[1].delete = synced[1].delete
        /\ synced'[1].local = synced[1].local)
           => Overwrites(synced'[1]) = {}]_vars

\* A call with the delete-unused flag on found the guild holding the command
\* a with the subcommands b and c, which only an earlier overwrite can have
\* put there, and the global scope holding a: it fetched both scopes and
\* issued no overwrite
C26_Witness ==
    /\ synced # <<>>
    /\ synced[1].delete
    /\ Completed(synced[1])
    /\ Len(synced[1].calls) = 2
    /\ Overwrites(synced[1]) = {}
    /\ \E r \in synced[1].before["guild"] : r.options = {<<"a", "b">>, <<"a", "c">>}
    /\ \E r \in synced[1].before["global"] : r.options = {<<"a">>}

\* the scopes a call went through
ScopesOf(call) == {call.calls[i].scope : i \in 1..Len(call.calls)}

\* C27: when the service answers "forbidden" for one scope, on the fetch or
\* on the overwrite, that scope is skipped (its remote commands stay as they
\* were), every other scope is still synchronised to the end (fetched, and
\* overwritten when that is needed), and synchronise_interactions raises
\* nothing.
C27_ForbiddenScopeLocal ==
    synced # <<>> =>
        LET call == synced[1]
        IN /\ call.outcome = "None"
           /\ call.scopes = <<"MISSING">> =>
                  (DOMAIN call.local \cup {"global"}) \subseteq ScopesOf(call)
           /\ \A i \in 1..Len(call.calls) :
                  LET request == call.calls[i]
                  IN IF call.denied[request.scope] # "none"
                     THEN /\ request.overwrite # "done"
                          /\ remote_commands[request.scope] = call.before[request.scope]
                     ELSE /\ request.fetched
                          /\ request.overwrite \in {"none", "done"}
                          /\ (request.flag => request.overwrite = "done")

\* the canonical form of the local command of a base name, from the commands
\* registered in a scope at the time of a call
CanonicalLocal(call, scope, base) ==
    [name |-> base,
     options |-> {n \in DOMAIN call.local[scope] : n[1] = base},
     extra |-> "none"]

\* the base names of the commands registered in a scope at the time of a call
LocalBases(call, scope) ==
    IF Has(call.local, scope) THEN {n[1] : n \in DOMAIN call.local[scope]} ELSE {}

\* what the claim puts in the overwrite set for a local command, given the
\* remote commands of its name
Decided(local, remotes, delete) ==
    IF remotes = {} \/ \E r \in remotes : r.options # local.options
    THEN {local}
    ELSE IF delete THEN {local}
    ELSE {[name |-> r.name, options |-> r.options, extra |-> r.extra] : r \in remotes}

\* C30: in every scope fetched, each local command whose canonical form
\* differs from the remote one, or that has no remote one, puts its local
\* payload in the overwrite set and marks the scope dirty; one that is the
\* same puts the remote payload without id, application id and version in the
\* set when the delete-unused flag is off, and its local payload when the flag
\* is on; the set holds nothing else and no payload twice; and the overwrite
\* call is issued if and only if the scope is dirty, or the flag is on and the
\* set is smaller than the remote command list.
C30_SyncDecision ==
    synced # <<>> =>
        \A i \in 1..Len(synced[1].calls) :
            LET call == synced[1]
                request == call.calls[i]
                bases == LocalBases(call, request.scope)
                Remotes(base) == {r \in request.remote : r.name = base}
                Differs(base) ==
                    \/ Remotes(base) = {}
                    \/ \E r \in Remotes(base) :
                           r.options # CanonicalLocal(call, request.scope, base).options
            IN request.fetched =>
                   /\ request.payload =
                          UNION {Decided(CanonicalLocal(call, request.scope, base),
                                         Remotes(base), call.delete) : base \in bases}
                   /\ Cardinality(request.payload) = Cardinality(bases)
                   /\ request.flag = (\E base \in bases : Differs(base))
                   /\ (request.overwrite # "none") =
                          (\/ request.flag
                           \/ /\ call.delete
                              /\ Cardinality(request.payload) < Cardinality(request.remote))

\* With the flag off the global scope held a in the form of the local command
\* a, with a field of its own, and a command no local one names, while the
\* local command b had no remote one: the scope was dirty and the overwrite
\* set held the remote payload of a and the local payload of b
C30_Witness ==
    /\ synced # <<>>
    /\ ~synced[1].delete
    /\ \E i \in 1..Len(synced[1].calls) :
           LET request == synced[1].calls[i]
           IN /\ request.scope = "global"
              /\ request.flag
              /\ request.overwrite = "done"
              /\ Cardinality(request.remote) = 2
              /\ request.payload =
                     {[name |-> "a", options |-> {<<"a">>}, extra |-> "kept"],
                      [name |-> "b", options |-> {<<"b">>}, extra |-> "none"]}

---------------------------------------------------------------------------
(* Properties of the cache boundary *)

\* the calls whose lookup of the cache layer ended in "not found"
NotFoundCalls ==
    {i \in 1..Len(contexts) : ~contexts[i].embedded /\ contexts[i].lookup = "NotFound"}

\* C28: when the lookup that backfills a context's channel ends in "not
\* found", get_context returns a context with an absent channel and raises
\* nothing; and fetch_channel, fetch_guild, fetch_user and fetch_member
\* return an absent value instead of raising on "not found".
C28_NotFoundAbsent ==
    \A i \in NotFoundCalls :
        contexts[i].outcome = "returned" /\ contexts[i].channel = "None"

---------------------------------------------------------------------------
(* Properties of the auto-defer policy *)

\* the routed envelopes that invoked a command
CommandInvocations ==
    {i \in 1..Len(routed) : \E j \in 1..Len(routed[i].trace) : routed[i].trace[j] = "defer"}

\* C31: the defer policy applied to a command invocation is the command's
\* own setting when the command has one; otherwise the setting of the owning
\* extension when the command belongs to an extension that has one;
\* otherwise the process-wide default; exactly one of the three is invoked
\* per invocation.
C31_AutoDeferPrecedence ==
    \A i \in CommandInvocations :
        LET r == routed[i]
        IN /\ Len(r.deferred) = 1
           /\ r.settings.command # "MISSING" => r.deferred[1] = "command"
           /\ (r.settings.command = "MISSING"
                   /\ r.settings.extension \in {"enabled", "disabled"})
                  => r.deferred[1] = "extension"
           /\ (r.settings.command = "MISSING"
                   /\ r.settings.extension \in {"none", "MISSING"})
                  => r.deferred[1] = "client"

\* a command with its own setting, in an extension with one, was invoked
C31_Witness ==
    \E i \in CommandInvocations :
        /\ routed[i].settings.command = "disabled"
        /\ routed[i].settings.extension = "enabled"
        /\ routed[i].deferred = <<"command">>

---------------------------------------------------------------------------
(* Properties of the cache refresh *)

\* the scopes whose wrap call is at the given place
WrapsAt(place) == {scope \in DOMAIN wraps : wraps[scope] = place}

\* C32: during the bulk command-cache refresh the lock guards the outbound
\* fetch calls: under every interleaving, at most one get_application_commands
\* call issued by the wrap helper is in flight at a time.
C32_SerializedFetch == Cardinality(WrapsAt("in_flight")) <= 1

\* C32 (amended): the lock guards the delay that precedes each outbound fetch:
\* at most one wrap call is inside its delay at a time, and it is the holder
\* of the lock.
C32_SerializedDelay ==
    /\ Cardinality(WrapsAt("sleeping")) <= 1
    /\ WrapsAt("sleeping") # {} => req_lock.locked

\* one wrap call sleeps under the lock while another waits for it
C32_Witness == WrapsAt("sleeping") # {} /\ WrapsAt("waiting") # {}

---------------------------------------------------------------------------
(* Properties of the waiters under a raising predicate *)

---------------------------------------------------------------------------
(* Properties of the event names *)

\* C33: for every input name, the routing key produced by Listener.create and
\* by add_event_processor has no leading underscore and no leading "on_"
\* prefix, and normalizing it again returns it unchanged.
C33_NormalizedNames ==
    \A i \in 1..Len(event_names) :
        LET name == event_names[i].name
        IN event_names[i].outcome = "returned"
               => /\ ~StartsWith(name, <<"_">>)
                  /\ ~StartsWith(name, <<"o", "n", "_">>)
                  /\ Normalize(name) = name

---------------------------------------------------------------------------
(* Properties of the permission check and of the command tree *)

\* C34: with permission enforcement enabled, a successful add_interaction
\* appends the permission-check predicate to the command's check list exactly
\* once, whatever the number of scopes of the command; with enforcement
\* disabled the check list is unchanged.
C34_PermissionCheckOnce ==
    [][(IsCall("add_interaction") /\ lastCall'.outcome = "True") =>
          cmdChecks'[Len(commands')] = IF enforce_interaction_perms THEN 1 ELSE 0
    ]_vars

\* The keys under which the tree holds a command: its resolved name as one key
\* for a command without group and for a context menu, else its words
TreePath(cmd) ==
    IF Len(cmd.resolved_name) = 1 \/ cmd.type = "context_menu"
    THEN <<cmd.resolved_name>>
    ELSE [i \in 1..Len(cmd.resolved_name) |-> <<cmd.resolved_name[i]>>]

NoNode == [kind |-> "none", id |-> 0, items |-> <<>>]

\* The value of the tree d at a path of keys
RECURSIVE NodeAt(_, _)
NodeAt(d, path) ==
    IF ~Has(d, Head(path)) THEN NoNode
    ELSE IF Len(path) = 1 THEN d[Head(path)]
    ELSE IF d[Head(path)].kind = "dict" THEN NodeAt(d[Head(path)].items, Tail(path))
    ELSE NoNode

\* the commands of the flat map of a scope
Stored(scope) ==
    IF Has(interactions, scope)
    THEN {interactions[scope][n] : n \in DOMAIN interactions[scope]}
    ELSE {}

\* the commands of the flat map of a scope that the tree of the scope holds
\* at their path
ReachableIn(scope) ==
    {c \in Stored(scope) :
         /\ Has(interaction_tree, scope)
         /\ NodeAt(interaction_tree[scope], TreePath(commands[c]))
                = CommandNode(c, commands[c].type)}

Consistent == \A scope \in Scopes : ReachableIn(scope) = Stored(scope)

\* one path is the beginning of the other
Comparable(p, q) == IsPrefix(p, q) \/ IsPrefix(q, p)

\* C35: after any sequence of successful add_interaction calls, every command
\* stored in the flat per-scope map is reachable in the command tree of that
\* scope at the path given by the words of its resolved name: a successful
\* call keeps the two consistent.
C35_TreeFlatConsistency ==
    [][(Consistent /\ IsCall("add_interaction") /\ lastCall'.outcome = "True")
           => Consistent'
    ]_vars

\* C35 (amended): a successful add_interaction leaves the new command
\* reachable in the tree of each of its scopes at its path, and leaves
\* reachable every command that was, except those of the same scope whose
\* path begins the path of the new command or is begun by it.
C35_TreeInsertion ==
    [][(IsCall("add_interaction") /\ lastCall'.outcome = "True") =>
          LET c == Len(commands')
              cmd == commands'[c]
              own == {cmd.scopes[i] : i \in 1..Len(cmd.scopes)}
          IN \A scope \in Scopes :
                 IF scope \in own
                 THEN /\ c \in ReachableIn(scope)'
                      /\ \A d \in ReachableIn(scope) :
                             \/ Comparable(TreePath(commands[d]), TreePath(cmd))
                             \/ d \in ReachableIn(scope)'
                 ELSE ReachableIn(scope)' = ReachableIn(scope)
    ]_vars

\* a command and a subcommand under its name are in the flat map of a scope,
\* and the tree holds the one registered last
C35_Witness ==
    /\ lastCall = [op |-> "add_interaction", outcome |-> "True"]
    /\ \E scope \in Scopes : \E c \in Stored(scope) :
           /\ c # Len(commands)
           /\ Len(commands) \in ReachableIn(scope)
           /\ c \notin ReachableIn(scope)
           /\ Comparable(TreePath(commands[c]), TreePath(commands[Len(commands)]))

---------------------------------------------------------------------------
(* Properties of the deletion of remote commands *)

\* C36: when synchronise_interactions runs with the delete-unused flag off,
\* every remote command that existed in a scope before the call and has no
\* local counterpart still exists in that scope after the call, also when an
\* overwrite is issued for the scope.
C36_NoDeletionWhenOff ==
    (synced # <<>> /\ ~synced[1].delete) =>
        \A scope \in Scopes : \A r \in synced[1].before[scope] :
            r.name \notin LocalBases(synced[1], scope)
                => \E q \in remote_commands[scope] : q.name = r.name

---------------------------------------------------------------------------
(* Properties of the auto-moderation processors *)

\* the derived event of each raw rule event
RuleEvents ==
    [raw_auto_moderation_rule_create |-> "auto_mod_created",
     raw_auto_moderation_rule_update |-> "auto_mod_updated",
     raw_auto_moderation_rule_delete |-> "auto_mod_deleted"]

\* C38: the processor of the raw rule-create event dispatches AutoModCreated,
\* the processor of the raw rule-update event dispatches AutoModUpdated, and
\* the processor of the raw rule-delete event dispatches AutoModDeleted.
C38_AutoModKinds ==
    \A i \in 1..Len(dispatched) :
        dispatched[i].payload \in DOMAIN RuleEvents
            => dispatched[i].name = RuleEvents[dispatched[i].payload]

---------------------------------------------------------------------------
(* Properties of the websocket-ready handler *)

\* the events of a name in the log of dispatch
Dispatches(name) == {i \in 1..Len(dispatched) : dispatched[i].name = name}

\* the executions of the handler that ran _init_interactions
InitRuns == {h \in 1..Len(handlers) : handlers[h].init}

\* C39: under every interleaving of websocket-ready handler executions, the
\* Startup event is dispatched at most once and the initial interaction
\* sync/cache pass runs at most once; the readiness signal is set before each
\* Ready event is dispatched.
C39_StartupOnce ==
    /\ Cardinality(Dispatches("startup")) <= 1
    /\ Cardinality(InitRuns) <= 1
    /\ Dispatches("ready") # {} => ready

\* C40: every execution of the websocket-ready handler on a reconnect
\* eventually removes its temporary raw-guild-create listener, sets the
\* readiness signal and dispatches Ready, also when fewer guild-create events
\* arrive than guilds are expected and whatever the state of the guild-cached
\* signal.
C40_ReconnectRestored ==
    \A h \in 1..MaxHandlers :
        (h <= Len(handlers) /\ handlers[h].branch = "reconnect")
            ~> (/\ h <= Len(handlers)
                /\ handlers[h].pc = "done"
                /\ \A i \in 1..Len(listeners["raw_guild_create"]) :
                       listeners["raw_guild_create"][i].id # handlers[h].listener)

====
